---- MODULE Spec2Model ----
(***************************************************************************)
(* Modbus TCP slave on a W5500 (board MODBUS_2): the session loop of       *)
(* src/modbus_2.rs and the socket, transport and protocol functions of     *)
(* src/common.rs, with the W5500 socket 0 and its TCP peer as environment. *)
(*                                                                         *)
(* Numbers: a u8 is 0..255, a u16 is 0..65535.  A 32-bit value (an f32 bit *)
(* pattern, the u32 uptime) is a natural below 2^31, the largest the model *)
(* checker's integers hold; the sets below draw only such values.          *)
(***************************************************************************)
EXTENDS Integers, Sequences, FiniteSets, TLC

VARIABLES
    \* ---- program state (main, src/modbus_2.rs) ----
    pc,             \* position of the single thread of control
    sensor_data,    \* SensorData {temperature, humidity, status, uptime}
    loop_count,     \* u32
    is_connected,   \* bool
    status,         \* this iteration's status byte: <<>> before the read, <<s>> after
    buffer,         \* bytes read_rx_data stored at the start of main's buffer
    data,           \* &buffer[..bytes_read] once read_rx_data has returned Ok
    response,       \* &response[..pos] handed to write_tx_data
    \* ---- locals of reopen_socket / check_rx_size / read_rx_data / write_tx_data ----
    loc,            \* [retries, high, rx_size, ptr, bytes_to_read], zero when out of scope
    \* ---- what one iteration of the loop did (reset at the top of the loop) ----
    log,            \* the defmt messages of this iteration that tell its outcome
    xfers,          \* the socket-register transactions of this iteration
    sent,           \* the responses whose Send command was written
    nreads,         \* status reads made by the current wait loop of reopen_socket
    \* ---- W5500 socket 0 and the SPI bus (environment) ----
    cs,             \* chip-select line: "high" (deselected) or "low"
    sr,             \* Sn_SR, socket status register
    cr,             \* Sn_CR, command register: 0 once the command is accepted
    sreg,           \* the host-written socket registers (mode, port, pointers)
    rxq,            \* received bytes not yet released by a Recv command
    rxbase,         \* RX buffer address of the first byte of rxq
    faultFree,      \* TRUE: the simulated fault-free controller of the tests
    peer_events,    \* what the peer has done so far (bounded by MaxPeerEvents)
    spi_faults,     \* SPI transfers that have failed so far (bounded by MaxSpiFaults)
    \* ---- pure-function harness ----
    fn_in,          \* the call: [op |-> ..., arguments]
    fn_out          \* its result, [op |-> "none"] before the call

progVars == <<pc, sensor_data, loop_count, is_connected, status, buffer, data, response>>
localVars == <<loc>>
iterVars == <<log, xfers, sent, nreads>>
ctrlVars == <<cs, sr, cr, sreg, rxq, rxbase, faultFree, peer_events>>
fnVars == <<fn_in, fn_out>>
vars == <<progVars, localVars, iterVars, ctrlVars, spi_faults, fnVars>>

(***************************************************************************)
(* Bounds of the model                                                     *)
(***************************************************************************)
\* Iterations of the session loop a behaviour runs (uptime counts them).
MaxUptime == 4
\* Events of the TCP peer (connect, send, close, reset) in a behaviour.
MaxPeerEvents == 2
\* SPI transfers that fail in a behaviour.
MaxSpiFaults == 1

(***************************************************************************)
(* Program constants                                                       *)
(***************************************************************************)
REG_S0_MR == 0
REG_S0_CR == 1
REG_S0_SR == 3
REG_S0_PORT0 == 4
REG_S0_TX_WR0 == 36
REG_S0_RX_RSR0 == 38
REG_S0_RX_RD0 == 40

SOCK_MODE_TCP == 1

SOCK_CMD_OPEN == 1
SOCK_CMD_LISTEN == 2
SOCK_CMD_SEND == 32
SOCK_CMD_RECV == 64
SOCK_CMD_CLOSE == 16

SOCK_STATUS_CLOSED == 0
SOCK_STATUS_INIT == 19
SOCK_STATUS_LISTEN == 20
SOCK_STATUS_ESTABLISHED == 23
SOCK_STATUS_CLOSE_WAIT == 28

READ_HOLDING_REGISTERS == 3
READ_INPUT_REGISTERS == 4

ILLEGAL_FUNCTION == 1
ILLEGAL_DATA_ADDRESS == 2
ILLEGAL_DATA_VALUE == 3

STATUS_OK == 0

\* let mut buffer = [0u8; 260] and let mut response = [0u8; 260] in main
BUFFER_LEN == 260
RESPONSE_LEN == 260
\* let mut tx_buf = [0u8; 256] / rx_buf in the RX and TX buffer accessors
SPI_BUF_LEN == 256
\* let mut retries = 20 in reopen_socket
REOPEN_RETRIES == 20
\* count > 125 in parse_modbus_request
MAX_REGISTER_COUNT == 125
\* 25.5f32 and 60.0f32 as bit patterns (SensorData::default)
DEFAULT_TEMPERATURE == 1103888384
DEFAULT_HUMIDITY == 1114636288

(***************************************************************************)
(* Bytes and words                                                         *)
(***************************************************************************)
Byte == 0..255

\* u16::from_be_bytes([hi, lo])
u16_from_be_bytes(hi, lo) == hi * 256 + lo

\* u16::to_be_bytes
u16_to_be_bytes(x) == <<x \div 256, x % 256>>

\* u16::wrapping_add
u16_wrapping_add(x, n) == (x + n) % 65536

\* f32::to_be_bytes of the value with bit pattern v
f32_to_be_bytes(v) ==
    <<v \div 16777216, (v \div 65536) % 256, (v \div 256) % 256, v % 256>>

Min(a, b) == IF a < b THEN a ELSE b

Zeros(n) == [i \in 1..n |-> 0]

\* dst with src copied in from (0-based) offset off: dst[off..off+len].copy_from_slice(src)
CopyAt(dst, off, src) ==
    [i \in 1..Len(dst) |->
        IF i > off /\ i <= off + Len(src) THEN src[i - off] ELSE dst[i]]

(***************************************************************************)
(* Modbus protocol functions (src/common.rs)                               *)
(***************************************************************************)
\* MbapHeader::from_bytes
MbapHeader_from_bytes(d) ==
    IF Len(d) < 7
    THEN [ok |-> FALSE, transaction_id |-> 0, protocol_id |-> 0, length |-> 0, unit_id |-> 0]
    ELSE [ok |-> TRUE,
          transaction_id |-> u16_from_be_bytes(d[1], d[2]),
          protocol_id |-> u16_from_be_bytes(d[3], d[4]),
          length |-> u16_from_be_bytes(d[5], d[6]),
          unit_id |-> d[7]]

\* Variant of to_bytes that writes the length before the protocol id
MbapHeader_to_bytes_length_first(h, buf) ==
    IF Len(buf) < 7
    THEN [ok |-> FALSE, buffer |-> buf]
    ELSE [ok |-> TRUE,
          buffer |-> CopyAt(buf, 0,
                        u16_to_be_bytes(h.transaction_id)
                        \o u16_to_be_bytes(h.length)
                        \o u16_to_be_bytes(h.protocol_id)
                        \o <<h.unit_id>>)]

\* MbapHeader::to_bytes(&self, buffer): the result and the buffer afterwards
MbapHeader_to_bytes(h, buf) ==
    IF Len(buf) < 7
    THEN [ok |-> FALSE, buffer |-> buf]
    ELSE [ok |-> TRUE,
          buffer |-> CopyAt(buf, 0,
                        u16_to_be_bytes(h.transaction_id)
                        \o u16_to_be_bytes(h.protocol_id)
                        \o u16_to_be_bytes(h.length)
                        \o <<h.unit_id>>)]

\* Variant of parse_modbus_request that validates the count before the function code
parse_modbus_request_count_first(d) ==
    IF Len(d) < 5
    THEN [ok |-> FALSE, exception |-> ILLEGAL_DATA_VALUE, fc |-> 0, addr |-> 0, count |-> 0]
    ELSE LET function_code == d[1]
             start_addr == u16_from_be_bytes(d[2], d[3])
             count == u16_from_be_bytes(d[4], d[5])
         IN  IF count = 0 \/ count > MAX_REGISTER_COUNT
             THEN [ok |-> FALSE, exception |-> ILLEGAL_DATA_VALUE, fc |-> 0, addr |-> 0, count |-> 0]
             ELSE IF function_code # READ_HOLDING_REGISTERS
                     /\ function_code # READ_INPUT_REGISTERS
             THEN [ok |-> FALSE, exception |-> ILLEGAL_FUNCTION, fc |-> 0, addr |-> 0, count |-> 0]
             ELSE [ok |-> TRUE, exception |-> 0, fc |-> function_code,
                   addr |-> start_addr, count |-> count]

\* Variant of parse_modbus_request that accepts Read Holding Registers only
parse_modbus_request_holding_only(d) ==
    IF Len(d) < 5
    THEN [ok |-> FALSE, exception |-> ILLEGAL_DATA_VALUE, fc |-> 0, addr |-> 0, count |-> 0]
    ELSE LET function_code == d[1]
             start_addr == u16_from_be_bytes(d[2], d[3])
             count == u16_from_be_bytes(d[4], d[5])
         IN  IF function_code # READ_HOLDING_REGISTERS
             THEN [ok |-> FALSE, exception |-> ILLEGAL_FUNCTION, fc |-> 0, addr |-> 0, count |-> 0]
             ELSE IF count = 0 \/ count > MAX_REGISTER_COUNT
             THEN [ok |-> FALSE, exception |-> ILLEGAL_DATA_VALUE, fc |-> 0, addr |-> 0, count |-> 0]
             ELSE [ok |-> TRUE, exception |-> 0, fc |-> function_code,
                   addr |-> start_addr, count |-> count]

\* parse_modbus_request: Ok((function_code, start_addr, count)) or Err(exception)
parse_modbus_request(d) ==
    IF Len(d) < 5
    THEN [ok |-> FALSE, exception |-> ILLEGAL_DATA_VALUE, fc |-> 0, addr |-> 0, count |-> 0]
    ELSE LET function_code == d[1]
             start_addr == u16_from_be_bytes(d[2], d[3])
             count == u16_from_be_bytes(d[4], d[5])
         IN  IF function_code # READ_HOLDING_REGISTERS
                /\ function_code # READ_INPUT_REGISTERS
             THEN [ok |-> FALSE, exception |-> ILLEGAL_FUNCTION, fc |-> 0, addr |-> 0, count |-> 0]
             ELSE IF count = 0 \/ count > MAX_REGISTER_COUNT
             THEN [ok |-> FALSE, exception |-> ILLEGAL_DATA_VALUE, fc |-> 0, addr |-> 0, count |-> 0]
             ELSE [ok |-> TRUE, exception |-> 0, fc |-> function_code,
                   addr |-> start_addr, count |-> count]

\* Variant of f32_to_registers with the low half first
f32_to_registers_low_first(value) ==
    LET bytes == f32_to_be_bytes(value)
    IN  <<u16_from_be_bytes(bytes[3], bytes[4]), u16_from_be_bytes(bytes[1], bytes[2])>>

\* f32_to_registers
f32_to_registers(value) ==
    LET bytes == f32_to_be_bytes(value)
    IN  <<u16_from_be_bytes(bytes[1], bytes[2]), u16_from_be_bytes(bytes[3], bytes[4])>>

\* Variant of u32_to_registers without the shift of the high word
u32_to_registers_unshifted(value) == <<value % 65536, value % 65536>>

\* u32_to_registers
u32_to_registers(value) == <<(value \div 65536) % 65536, value % 65536>>

\* the match on reg_addr in handle_read_registers, for reg_addr in 0..9
RegisterValue(reg_addr, sd) ==
    CASE reg_addr = 0 -> f32_to_registers(sd.temperature)[1]
      [] reg_addr = 1 -> f32_to_registers(sd.temperature)[2]
      [] reg_addr = 2 -> f32_to_registers(sd.humidity)[1]
      [] reg_addr = 3 -> f32_to_registers(sd.humidity)[2]
      [] reg_addr = 4 -> sd.status
      [] reg_addr = 5 -> u32_to_registers(sd.uptime)[1]
      [] reg_addr = 6 -> u32_to_registers(sd.uptime)[2]
      [] OTHER -> 0

\* The for loop of handle_read_registers from iteration i on, pos bytes written.
\* overflow: start_addr + i does not fit a u16 (a panic with overflow checks,
\* a wrapped index without).
RECURSIVE ReadRegistersFrom(_, _, _, _, _, _)
ReadRegistersFrom(i, start_addr, count, sd, buf, pos) ==
    IF i >= count
    THEN [ok |-> TRUE, len |-> pos, exception |-> 0, buffer |-> buf, overflow |-> FALSE]
    ELSE IF start_addr + i > 65535
    THEN [ok |-> FALSE, len |-> 0, exception |-> 0, buffer |-> buf, overflow |-> TRUE]
    ELSE LET reg_addr == start_addr + i
         IN  IF reg_addr > 9
             THEN [ok |-> FALSE, len |-> 0, exception |-> ILLEGAL_DATA_ADDRESS,
                   buffer |-> buf, overflow |-> FALSE]
             ELSE IF pos + 2 > Len(buf)
             THEN [ok |-> FALSE, len |-> 0, exception |-> ILLEGAL_DATA_VALUE,
                   buffer |-> buf, overflow |-> FALSE]
             ELSE ReadRegistersFrom(i + 1, start_addr, count, sd,
                      CopyAt(buf, pos, u16_to_be_bytes(RegisterValue(reg_addr, sd))),
                      pos + 2)

\* Variant of the loop whose match has no out-of-range arm: every address above 6
\* reads as a reserved register
RECURSIVE ReadRegistersFrom_all_reserved(_, _, _, _, _, _)
ReadRegistersFrom_all_reserved(i, start_addr, count, sd, buf, pos) ==
    IF i >= count
    THEN [ok |-> TRUE, len |-> pos, exception |-> 0, buffer |-> buf, overflow |-> FALSE]
    ELSE IF start_addr + i > 65535
    THEN [ok |-> FALSE, len |-> 0, exception |-> 0, buffer |-> buf, overflow |-> TRUE]
    ELSE IF pos + 2 > Len(buf)
    THEN [ok |-> FALSE, len |-> 0, exception |-> ILLEGAL_DATA_VALUE,
          buffer |-> buf, overflow |-> FALSE]
    ELSE ReadRegistersFrom_all_reserved(i + 1, start_addr, count, sd,
             CopyAt(buf, pos, u16_to_be_bytes(RegisterValue(start_addr + i, sd))),
             pos + 2)

handle_read_registers_all_reserved(start_addr, count, sd, response_buffer) ==
    ReadRegistersFrom_all_reserved(0, start_addr, count, sd, response_buffer, 0)

\* handle_read_registers(start_addr, count, sensor_data, response_buffer)
handle_read_registers(start_addr, count, sd, response_buffer) ==
    ReadRegistersFrom(0, start_addr, count, sd, response_buffer, 0)

(***************************************************************************)
(* Request handling of the session loop (main, src/modbus_2.rs 145-227)    *)
(***************************************************************************)
Msg(m) == [msg |-> m, code |-> 0]
MsgCode(m, c) == [msg |-> m, code |-> c]

\* Variant of BuildResponse that keeps the request's length field (line 179 left out)
BuildResponse_length_kept(mbap, fc, addr, count, sd) ==
    LET hdr == MbapHeader_to_bytes(mbap, Zeros(7))
        head == CopyAt(CopyAt(CopyAt(Zeros(RESPONSE_LEN), 0, hdr.buffer),
                           7, <<fc>>),
                           8, <<(count * 2) % 256>>)
        regs == handle_read_registers(addr, count, sd, SubSeq(head, 10, RESPONSE_LEN))
        whole == SubSeq(head, 1, 9) \o regs.buffer
    IN  [built |-> hdr.ok,
         ok |-> hdr.ok /\ regs.ok,
         exception |-> regs.exception,
         overflow |-> regs.overflow,
         response |-> IF hdr.ok /\ regs.ok THEN SubSeq(whole, 1, 9 + regs.len) ELSE <<>>]

\* The response main builds for a parsed request, 168-213: the MBAP header copied
\* from the request, the length field rewritten, function code, byte count, and
\* the register bytes from handle_read_registers.
BuildResponse(mbap, fc, addr, count, sd) ==
    LET hdr == MbapHeader_to_bytes(mbap, Zeros(7))
        response_length == (1 + 1 + 1 + (count * 2)) % 65536
        head == CopyAt(CopyAt(CopyAt(CopyAt(Zeros(RESPONSE_LEN), 0, hdr.buffer),
                           4, u16_to_be_bytes(response_length)),
                           7, <<fc>>),
                           8, <<(count * 2) % 256>>)
        regs == handle_read_registers(addr, count, sd, SubSeq(head, 10, RESPONSE_LEN))
        whole == SubSeq(head, 1, 9) \o regs.buffer
    IN  [built |-> hdr.ok,
         ok |-> hdr.ok /\ regs.ok,
         exception |-> regs.exception,
         overflow |-> regs.overflow,
         response |-> IF hdr.ok /\ regs.ok THEN SubSeq(whole, 1, 9 + regs.len) ELSE <<>>]

\* What main does with the bytes read, d = &buffer[..bytes_read]: the messages
\* it logs, whether it calls write_tx_data and with which bytes.
ProcessFrame(d, sd) ==
    LET bytes_read == Len(d)
        read == <<MsgCode("Read bytes from RX buffer", bytes_read)>>
        nothing == [send |-> FALSE, response |-> <<>>, panic |-> FALSE]
    IN  IF bytes_read >= 7
        THEN LET mbap == MbapHeader_from_bytes(d)
             IN  IF ~mbap.ok
                 THEN nothing @@
                      [log |-> read \o <<Msg("Failed to parse MBAP header")>>]
                 ELSE IF bytes_read >= 12
                 THEN LET req == parse_modbus_request(SubSeq(d, 8, bytes_read))
                      IN  IF ~req.ok
                          THEN nothing @@
                               [log |-> read \o <<Msg("MBAP Header parsed"),
                                          MsgCode("Modbus parse error", req.exception)>>]
                          ELSE LET r == BuildResponse(mbap, req.fc, req.addr, req.count, sd)
                               IN  IF r.overflow
                                   THEN [send |-> FALSE, response |-> <<>>, panic |-> TRUE,
                                         log |-> read \o <<Msg("MBAP Header parsed"),
                                                    Msg("Modbus Request")>>]
                                   ELSE IF r.ok
                                   THEN [send |-> TRUE, response |-> r.response, panic |-> FALSE,
                                         log |-> read \o <<Msg("MBAP Header parsed"),
                                                    Msg("Modbus Request"),
                                                    MsgCode("Sending response", Len(r.response))>>]
                                   ELSE IF r.built
                                   THEN nothing @@
                                        [log |-> read \o <<Msg("MBAP Header parsed"),
                                                   Msg("Modbus Request"),
                                                   MsgCode("Register read error", r.exception)>>]
                                   ELSE nothing @@
                                        [log |-> read \o <<Msg("MBAP Header parsed"),
                                                   Msg("Modbus Request")>>]
                 ELSE nothing @@ [log |-> read \o <<Msg("MBAP Header parsed")>>]
        ELSE nothing @@ [log |-> read \o <<Msg("Frame too small for Modbus TCP")>>]

(***************************************************************************)
(* SPI transactions on the socket-register block                           *)
(***************************************************************************)
\* Whether an SPI transfer succeeds: spi.transfer / spi.write return Ok or Err.
SpiOk == IF faultFree \/ spi_faults >= MaxSpiFaults THEN {TRUE} ELSE BOOLEAN

\* This iteration's record of a transaction
Record(x) ==
    /\ xfers' = Append(xfers, x)
    /\ spi_faults' = IF x.ok THEN spi_faults ELSE spi_faults + 1

\* A status poll of a wait loop: a run of polls that read the same value is recorded
\* once (nreads counts them)
RecordPoll(x) ==
    /\ xfers' = IF xfers # <<>> /\ xfers[Len(xfers)] = x THEN xfers ELSE Append(xfers, x)
    /\ spi_faults' = IF x.ok THEN spi_faults ELSE spi_faults + 1

NoLocals == [retries |-> 0, high |-> 0, rx_size |-> 0, ptr |-> 0, bytes_to_read |-> 0]

\* Sn_RX_RD and Sn_TX_WR as the controller holds them
RxReadPointer == u16_from_be_bytes(sreg[REG_S0_RX_RD0], sreg[REG_S0_RX_RD0 + 1])
TxWritePointer == u16_from_be_bytes(sreg[REG_S0_TX_WR0], sreg[REG_S0_TX_WR0 + 1])

\* The byte the controller returns for a socket register (rx_buf[3])
SocketRegister(address) ==
    CASE address = REG_S0_SR -> sr
      [] address = REG_S0_CR -> cr
      [] address = REG_S0_RX_RSR0 -> Len(rxq) \div 256
      [] address = REG_S0_RX_RSR0 + 1 -> Len(rxq) % 256
      [] OTHER -> sreg[address]

\* w5500_read_socket_register as this iteration's record of it
RegRead(address, ok) ==
    [op |-> "read", addr |-> address, val |-> IF ok THEN SocketRegister(address) ELSE 0,
     ok |-> ok]

\* w5500_write_socket_register: its record, and what it does to the controller
RegWrite(address, value, ok) ==
    [op |-> "write", addr |-> address, val |-> value, ok |-> ok]

WriteEffect(address, value, ok) ==
    /\ cr' = IF ok /\ address = REG_S0_CR THEN value ELSE cr
    /\ sreg' = IF ok /\ address # REG_S0_CR THEN [sreg EXCEPT ![address] = value] ELSE sreg
    /\ UNCHANGED <<cs, sr, rxq, rxbase, faultFree, peer_events>>

\* w5500_read_rx_buffer(address, buffer) with buffer.len() = n: the bytes returned
RxBufferBytes(address, n) ==
    LET off == (address - rxbase) % 65536
    IN  [i \in 1..n |-> IF off + i <= Len(rxq) THEN rxq[off + i] ELSE 0]

(***************************************************************************)
(* The session loop (main, src/modbus_2.rs 60-243)                         *)
(***************************************************************************)
\* read_sht3x: Ok((temp, hum)) as f32 bit patterns (21.12 C, 45.2 %), or Err
ReadSht3xResults ==
    {[ok |-> FALSE, temp |-> 0, hum |-> 0],
     [ok |-> TRUE, temp |-> 1101591491, hum |-> 1110756557]}

\* 60-65: the 500 ms wait, uptime and loop_count advance; a new iteration begins
LoopTop ==
    /\ pc = "loop"
    /\ sensor_data.uptime < MaxUptime
    /\ sensor_data' = [sensor_data EXCEPT !.uptime = @ + 1]
    /\ loop_count' = loop_count + 1
    /\ pc' = IF loop_count' % 4 = 0 THEN "sensor" ELSE "status"
    /\ status' = <<>> /\ buffer' = <<>> /\ data' = <<>> /\ response' = <<>>
    /\ loc' = NoLocals
    /\ log' = <<>> /\ xfers' = <<>> /\ sent' = <<>> /\ nreads' = 0
    /\ UNCHANGED <<is_connected, ctrlVars, spi_faults, fnVars>>

\* Variant of the sensor refresh whose Err arm falls back to the default readings
ReadSensor_defaults_on_failure ==
    /\ pc = "sensor"
    /\ \E r \in ReadSht3xResults :
         sensor_data' = IF r.ok
                        THEN [sensor_data EXCEPT !.temperature = r.temp, !.humidity = r.hum]
                        ELSE [sensor_data EXCEPT !.temperature = DEFAULT_TEMPERATURE,
                                                 !.humidity = DEFAULT_HUMIDITY]
    /\ pc' = "status"
    /\ UNCHANGED <<loop_count, is_connected, status, buffer, data, response,
                   loc, iterVars, spi_faults, ctrlVars, fnVars>>

\* Variant of the refresh that flags a failed read in the status word
ReadSensor_flags_failure ==
    /\ pc = "sensor"
    /\ \E r \in ReadSht3xResults :
         sensor_data' = IF r.ok
                        THEN [sensor_data EXCEPT !.temperature = r.temp, !.humidity = r.hum]
                        ELSE [sensor_data EXCEPT !.status = 1]
    /\ pc' = "status"
    /\ UNCHANGED <<loop_count, is_connected, status, buffer, data, response,
                   loc, iterVars, spi_faults, ctrlVars, fnVars>>

\* 67-83: sensor refresh (and display update) every fourth iteration
ReadSensor ==
    /\ pc = "sensor"
    /\ \E r \in ReadSht3xResults :
         sensor_data' = IF r.ok
                        THEN [sensor_data EXCEPT !.temperature = r.temp, !.humidity = r.hum]
                        ELSE sensor_data
    /\ pc' = "status"
    /\ UNCHANGED <<loop_count, is_connected, status, buffer, data, response,
                   loc, iterVars, spi_faults, ctrlVars, fnVars>>

\* Variant of the match on status whose LISTEN arm calls listen_socket
CheckStatus_listen_again ==
    /\ pc = "status"
    /\ \E ok \in SpiOk :
         /\ Record(RegRead(REG_S0_SR, ok))
         /\ IF ~ok
            THEN /\ log' = Append(log, Msg("Failed to read socket status"))
                 /\ pc' = "loop"
                 /\ UNCHANGED <<status, is_connected>>
            ELSE /\ status' = <<sr>>
                 /\ CASE sr = 0 ->
                           /\ log' = Append(log, Msg("Socket CLOSED - reopening"))
                           /\ is_connected' = FALSE
                           /\ pc' = "reopen_close"
                      [] sr = 28 ->
                           /\ log' = Append(log, Msg("Socket CLOSE_WAIT - closing connection"))
                           /\ is_connected' = FALSE
                           /\ pc' = "close_socket"
                      [] sr = 19 ->
                           /\ log' = Append(log, Msg("Socket INIT - sending LISTEN"))
                           /\ is_connected' = FALSE
                           /\ pc' = "listen_socket"
                      [] sr = 20 ->
                           /\ log' = log
                           /\ is_connected' = FALSE
                           /\ pc' = "listen_socket"
                      [] sr = 23 ->
                           /\ log' = log
                           /\ is_connected' = TRUE
                           /\ pc' = "check_rx_size_high"
                      [] OTHER ->
                           /\ log' = log
                           /\ is_connected' = is_connected
                           /\ pc' = "loop"
    /\ UNCHANGED <<sensor_data, loop_count, buffer, data, response, loc, sent, nreads,
                   ctrlVars, fnVars>>

\* Variant of the match on status whose CLOSE_WAIT arm goes on to the data handling
CheckStatus_close_wait_falls_through ==
    /\ pc = "status"
    /\ \E ok \in SpiOk :
         /\ Record(RegRead(REG_S0_SR, ok))
         /\ IF ~ok
            THEN /\ log' = Append(log, Msg("Failed to read socket status"))
                 /\ pc' = "loop"
                 /\ UNCHANGED <<status, is_connected>>
            ELSE /\ status' = <<sr>>
                 /\ CASE sr = 0 ->
                           /\ log' = Append(log, Msg("Socket CLOSED - reopening"))
                           /\ is_connected' = FALSE
                           /\ pc' = "reopen_close"
                      [] sr = 28 ->
                           /\ log' = Append(log, Msg("Socket CLOSE_WAIT - closing connection"))
                           /\ is_connected' = FALSE
                           /\ pc' = "check_rx_size_high"
                      [] sr = 19 ->
                           /\ log' = Append(log, Msg("Socket INIT - sending LISTEN"))
                           /\ is_connected' = FALSE
                           /\ pc' = "listen_socket"
                      [] sr = 20 ->
                           /\ log' = log
                           /\ is_connected' = FALSE
                           /\ pc' = "loop"
                      [] sr = 23 ->
                           /\ log' = log
                           /\ is_connected' = TRUE
                           /\ pc' = "check_rx_size_high"
                      [] OTHER ->
                           /\ log' = log
                           /\ is_connected' = is_connected
                           /\ pc' = "loop"
    /\ UNCHANGED <<sensor_data, loop_count, buffer, data, response, loc, sent, nreads,
                   ctrlVars, fnVars>>

\* 85-131: check_socket_status and the match on status
CheckStatus ==
    /\ pc = "status"
    /\ \E ok \in SpiOk :
         /\ Record(RegRead(REG_S0_SR, ok))
         /\ IF ~ok
            THEN /\ log' = Append(log, Msg("Failed to read socket status"))
                 /\ pc' = "loop"
                 /\ UNCHANGED <<status, is_connected>>
            ELSE /\ status' = <<sr>>
                 /\ CASE sr = 0 ->
                           /\ log' = Append(log, Msg("Socket CLOSED - reopening"))
                           /\ is_connected' = FALSE
                           /\ pc' = "reopen_close"
                      [] sr = 28 ->
                           /\ log' = Append(log, Msg("Socket CLOSE_WAIT - closing connection"))
                           /\ is_connected' = FALSE
                           /\ pc' = "close_socket"
                      [] sr = 19 ->
                           /\ log' = Append(log, Msg("Socket INIT - sending LISTEN"))
                           /\ is_connected' = FALSE
                           /\ pc' = "listen_socket"
                      [] sr = 20 ->
                           /\ log' = log
                           /\ is_connected' = FALSE
                           /\ pc' = "loop"
                      [] sr = 23 ->
                           /\ log' = log
                           /\ is_connected' = TRUE
                           /\ pc' = "check_rx_size_high"
                      [] OTHER ->
                           /\ log' = log
                           /\ is_connected' = is_connected
                           /\ pc' = "loop"
    /\ UNCHANGED <<sensor_data, loop_count, buffer, data, response, loc, sent, nreads,
                   ctrlVars, fnVars>>

\* Variant of close_socket that writes the Listen command
CloseSocket_writes_listen ==
    /\ pc = "close_socket"
    /\ \E ok \in SpiOk :
         /\ Record(RegWrite(REG_S0_CR, SOCK_CMD_LISTEN, ok))
         /\ WriteEffect(REG_S0_CR, SOCK_CMD_LISTEN, ok)
         /\ log' = IF ok THEN log ELSE Append(log, Msg("Failed to close socket"))
    /\ pc' = "loop"
    /\ UNCHANGED <<sensor_data, loop_count, is_connected, status, buffer, data, response,
                   loc, sent, nreads, fnVars>>

\* close_socket (common.rs 313-320) called from the CLOSE_WAIT arm, 104-111
CloseSocket ==
    /\ pc = "close_socket"
    /\ \E ok \in SpiOk :
         /\ Record(RegWrite(REG_S0_CR, SOCK_CMD_CLOSE, ok))
         /\ WriteEffect(REG_S0_CR, SOCK_CMD_CLOSE, ok)
         /\ log' = IF ok THEN log ELSE Append(log, Msg("Failed to close socket"))
    /\ pc' = "loop"
    /\ UNCHANGED <<sensor_data, loop_count, is_connected, status, buffer, data, response,
                   loc, sent, nreads, fnVars>>

\* Variant of listen_socket that writes the Open command
ListenSocket_writes_open ==
    /\ pc = "listen_socket"
    /\ \E ok \in SpiOk :
         /\ Record(RegWrite(REG_S0_CR, SOCK_CMD_OPEN, ok))
         /\ WriteEffect(REG_S0_CR, SOCK_CMD_OPEN, ok)
         /\ log' = IF ok THEN log ELSE Append(log, Msg("Failed to send LISTEN command"))
    /\ pc' = "loop"
    /\ UNCHANGED <<sensor_data, loop_count, is_connected, status, buffer, data, response,
                   loc, sent, nreads, fnVars>>

\* listen_socket (common.rs 323-330) called from the INIT arm, 112-119
ListenSocket ==
    /\ pc = "listen_socket"
    /\ \E ok \in SpiOk :
         /\ Record(RegWrite(REG_S0_CR, SOCK_CMD_LISTEN, ok))
         /\ WriteEffect(REG_S0_CR, SOCK_CMD_LISTEN, ok)
         /\ log' = IF ok THEN log ELSE Append(log, Msg("Failed to send LISTEN command"))
    /\ pc' = "loop"
    /\ UNCHANGED <<sensor_data, loop_count, is_connected, status, buffer, data, response,
                   loc, sent, nreads, fnVars>>

(***************************************************************************)
(* reopen_socket (common.rs 333-402), called from the CLOSED arm, 96-103   *)
(***************************************************************************)
\* One w5500_write_socket_register(...).await? of reopen_socket; a write that
\* starts a wait loop also sets let mut retries = 20.
ReopenWrite(here, address, value, next, startsWait) ==
    /\ pc = here
    /\ \E ok \in SpiOk :
         /\ Record(RegWrite(address, value, ok))
         /\ WriteEffect(address, value, ok)
         /\ IF ok
            THEN /\ pc' = next
                 /\ log' = log
                 /\ loc' = IF startsWait THEN [loc EXCEPT !.retries = REOPEN_RETRIES] ELSE loc
                 /\ nreads' = IF startsWait THEN 0 ELSE nreads
            ELSE /\ pc' = "loop"
                 /\ log' = Append(log, Msg("Failed to reopen socket"))
                 /\ loc' = NoLocals
                 /\ nreads' = nreads
    /\ UNCHANGED <<sensor_data, loop_count, is_connected, status, buffer, data, response,
                   sent, fnVars>>

\* Variant of the wait loop that never decrements retries
ReopenWait_no_decrement(here, expected, next, warning) ==
    /\ pc = here
    /\ faultFree => (loc.retries > 0 \/ cr = 0)
    /\ \E ok \in SpiOk :
         /\ RecordPoll(RegRead(REG_S0_SR, ok))
         /\ nreads' = nreads + 1
         /\ IF ~ok
            THEN /\ pc' = "loop"
                 /\ log' = Append(log, Msg("Failed to reopen socket"))
                 /\ loc' = NoLocals
            ELSE IF sr = expected
            THEN /\ pc' = next
                 /\ log' = IF next = "loop"
                           THEN Append(log, Msg("Socket reopened and listening on port 502"))
                           ELSE log
                 /\ loc' = NoLocals
            ELSE IF loc.retries = 0
            THEN /\ pc' = "loop"
                 /\ log' = log \o <<Msg(warning), Msg("Failed to reopen socket")>>
                 /\ loc' = NoLocals
            ELSE /\ pc' = here
                 /\ log' = log
                 /\ loc' = loc
    /\ UNCHANGED <<sensor_data, loop_count, is_connected, status, buffer, data, response,
                   sent, ctrlVars, fnVars>>

\* One pass of a wait loop: read the status; leave the loop when it is the expected
\* one, fail when retries == 0, else retries -= 1 and poll again after 10 ms.
\* A fault-free controller has accepted the command by the last poll.
ReopenWait(here, expected, next, warning) ==
    /\ pc = here
    /\ faultFree => (loc.retries > 0 \/ cr = 0)
    /\ \E ok \in SpiOk :
         /\ RecordPoll(RegRead(REG_S0_SR, ok))
         /\ nreads' = nreads + 1
         /\ IF ~ok
            THEN /\ pc' = "loop"
                 /\ log' = Append(log, Msg("Failed to reopen socket"))
                 /\ loc' = NoLocals
            ELSE IF sr = expected
            THEN /\ pc' = next
                 /\ log' = IF next = "loop"
                           THEN Append(log, Msg("Socket reopened and listening on port 502"))
                           ELSE log
                 /\ loc' = NoLocals
            ELSE IF loc.retries = 0
            THEN /\ pc' = "loop"
                 /\ log' = log \o <<Msg(warning), Msg("Failed to reopen socket")>>
                 /\ loc' = NoLocals
            ELSE /\ pc' = here
                 /\ log' = log
                 /\ loc' = [loc EXCEPT !.retries = @ - 1]
    /\ UNCHANGED <<sensor_data, loop_count, is_connected, status, buffer, data, response,
                   sent, ctrlVars, fnVars>>

\* Variant of the Close write that goes on to the mode write without the wait
ReopenClose_no_wait ==
    ReopenWrite("reopen_close", REG_S0_CR, SOCK_CMD_CLOSE, "reopen_mode", FALSE)

\* 338: Close command
ReopenClose ==
    ReopenWrite("reopen_close", REG_S0_CR, SOCK_CMD_CLOSE, "reopen_wait_closed", TRUE)

\* 342-354: wait for CLOSED
ReopenWaitClosed ==
    ReopenWait("reopen_wait_closed", 0, "reopen_mode", "Socket did not close properly")

\* Variant of the mode write that goes on after a transport error
ReopenMode_error_ignored ==
    /\ pc = "reopen_mode"
    /\ \E ok \in SpiOk :
         /\ Record(RegWrite(REG_S0_MR, SOCK_MODE_TCP, ok))
         /\ WriteEffect(REG_S0_MR, SOCK_MODE_TCP, ok)
    /\ pc' = "reopen_port0"
    /\ UNCHANGED <<sensor_data, loop_count, is_connected, status, buffer, data, response,
                   loc, log, sent, nreads, fnVars>>

\* 357: mode = TCP
ReopenMode ==
    ReopenWrite("reopen_mode", REG_S0_MR, SOCK_MODE_TCP, "reopen_port0", FALSE)

\* 360-362: source port 502 = 0x01F6, one byte at a time
ReopenPort0 ==
    ReopenWrite("reopen_port0", REG_S0_PORT0, 1, "reopen_port1", FALSE)

\* Variant of the second port write with another low byte
ReopenPort1_other_port ==
    ReopenWrite("reopen_port1", REG_S0_PORT0 + 1, 247, "reopen_open", FALSE)

ReopenPort1 ==
    ReopenWrite("reopen_port1", REG_S0_PORT0 + 1, 246, "reopen_open", FALSE)

\* 365: Open command
ReopenOpen ==
    ReopenWrite("reopen_open", REG_S0_CR, SOCK_CMD_OPEN, "reopen_wait_init", TRUE)

\* 369-381: wait for INIT
ReopenWaitInit ==
    ReopenWait("reopen_wait_init", SOCK_STATUS_INIT, "reopen_listen",
               "Socket did not reach INIT state")

\* Variant of the Listen step that writes Open again
ReopenListen_open_again ==
    ReopenWrite("reopen_listen", REG_S0_CR, SOCK_CMD_OPEN, "reopen_wait_listen", TRUE)

\* 384: Listen command
ReopenListen ==
    ReopenWrite("reopen_listen", REG_S0_CR, SOCK_CMD_LISTEN, "reopen_wait_listen", TRUE)

\* 388-401: wait for LISTEN, then return Ok(())
ReopenWaitListen ==
    ReopenWait("reopen_wait_listen", SOCK_STATUS_LISTEN, "loop",
               "Socket did not reach LISTEN state")

(***************************************************************************)
(* Inbound data while ESTABLISHED (main 134-241)                           *)
(***************************************************************************)
progRest == <<sensor_data, loop_count, is_connected, status>>

\* A register read of the receive path: the step at `here` reads `address`; on a
\* transport error the iteration ends with `failure` logged.
RxRegisterRead(here, address, failure, ok) ==
    /\ pc = here
    /\ Record(RegRead(address, ok))
    /\ ~ok => /\ pc' = "loop"
              /\ log' = Append(log, Msg(failure))
              /\ loc' = NoLocals
              /\ UNCHANGED <<data>>
    /\ UNCHANGED <<progRest, buffer, response, sent, nreads, ctrlVars, fnVars>>

\* check_rx_size (common.rs 405-413) called from main 135: high byte
CheckRxSizeHigh ==
    \E ok \in SpiOk :
        /\ RxRegisterRead("check_rx_size_high", REG_S0_RX_RSR0, "Failed to read RX size", ok)
        /\ ok => /\ loc' = [loc EXCEPT !.high = SocketRegister(REG_S0_RX_RSR0)]
                 /\ pc' = "check_rx_size_low"
                 /\ UNCHANGED <<log, data>>

\* check_rx_size: low byte, and main's match on rx_bytes, 136-240
CheckRxSizeLow ==
    \E ok \in SpiOk :
        /\ RxRegisterRead("check_rx_size_low", REG_S0_RX_RSR0 + 1, "Failed to read RX size", ok)
        /\ ok => LET rx_bytes == u16_from_be_bytes(loc.high, SocketRegister(REG_S0_RX_RSR0 + 1))
                 IN  /\ loc' = NoLocals
                     /\ pc' = IF rx_bytes > 0 THEN "read_rx_size_high" ELSE "loop"
                     /\ log' = IF rx_bytes > 0
                               THEN Append(log, MsgCode("Connection ESTABLISHED - bytes available",
                                                        rx_bytes))
                               ELSE log
                     /\ UNCHANGED <<data>>

\* read_rx_data step 1 (common.rs 424): check_rx_size again, high byte
ReadRxSizeHigh ==
    \E ok \in SpiOk :
        /\ RxRegisterRead("read_rx_size_high", REG_S0_RX_RSR0, "Failed to read RX data", ok)
        /\ ok => /\ loc' = [loc EXCEPT !.high = SocketRegister(REG_S0_RX_RSR0)]
                 /\ pc' = "read_rx_size_low"
                 /\ UNCHANGED <<log, data>>

\* read_rx_data 424-427: low byte; rx_size == 0 returns Ok(0), and main goes on
\* with bytes_read = 0
ReadRxSizeLow ==
    \E ok \in SpiOk :
        /\ RxRegisterRead("read_rx_size_low", REG_S0_RX_RSR0 + 1, "Failed to read RX data", ok)
        /\ ok => LET size == u16_from_be_bytes(loc.high, SocketRegister(REG_S0_RX_RSR0 + 1))
                 IN  IF size = 0
                     THEN /\ loc' = NoLocals
                          /\ pc' = "loop"
                          /\ data' = <<>>
                          /\ log' = log \o ProcessFrame(<<>>, sensor_data).log
                     ELSE /\ loc' = [loc EXCEPT !.rx_size = size, !.high = 0]
                          /\ pc' = "read_rx_ptr_high"
                          /\ UNCHANGED <<log, data>>

\* read_rx_data step 2, 430: RX read pointer, high byte
ReadRxPtrHigh ==
    \E ok \in SpiOk :
        /\ RxRegisterRead("read_rx_ptr_high", REG_S0_RX_RD0, "Failed to read RX data", ok)
        /\ ok => /\ loc' = [loc EXCEPT !.high = SocketRegister(REG_S0_RX_RD0)]
                 /\ pc' = "read_rx_ptr_low"
                 /\ UNCHANGED <<log, data>>

\* Variant of step 3's count that reads at most 8 bytes
ReadRxPtrLow_eight_bytes ==
    \E ok \in SpiOk :
        /\ RxRegisterRead("read_rx_ptr_low", REG_S0_RX_RD0 + 1, "Failed to read RX data", ok)
        /\ ok => /\ loc' = [loc EXCEPT
                              !.ptr = u16_from_be_bytes(loc.high,
                                                        SocketRegister(REG_S0_RX_RD0 + 1)),
                              !.high = 0,
                              !.bytes_to_read = Min(loc.rx_size, 8)]
                 /\ pc' = "read_rx_buffer"
                 /\ UNCHANGED <<log, data>>

\* read_rx_data 431-435: low byte; rx_ptr and bytes_to_read
ReadRxPtrLow ==
    \E ok \in SpiOk :
        /\ RxRegisterRead("read_rx_ptr_low", REG_S0_RX_RD0 + 1, "Failed to read RX data", ok)
        /\ ok => /\ loc' = [loc EXCEPT
                              !.ptr = u16_from_be_bytes(loc.high,
                                                        SocketRegister(REG_S0_RX_RD0 + 1)),
                              !.high = 0,
                              !.bytes_to_read = Min(loc.rx_size, BUFFER_LEN)]
                 /\ pc' = "read_rx_buffer"
                 /\ UNCHANGED <<log, data>>

\* read_rx_data step 3, 436: w5500_read_rx_buffer (common.rs 702-738).  The
\* transfer is cut from 256-byte arrays: &mut rx_buf[..len] with len = 3 +
\* buffer.len() panics past their end, after chip-select went low.
ReadRxBuffer ==
    /\ pc = "read_rx_buffer"
    /\ LET len == 3 + loc.bytes_to_read
       IN  IF len > SPI_BUF_LEN
           THEN /\ pc' = "panicked"
                /\ cs' = "low"
                /\ UNCHANGED <<buffer, loc, log, xfers, spi_faults>>
           ELSE \E ok \in SpiOk :
                  /\ Record([op |-> "read_rx_buffer", addr |-> loc.ptr,
                                             val |-> loc.bytes_to_read, ok |-> ok])
                  /\ cs' = cs
                  /\ IF ok
                     THEN /\ buffer' = RxBufferBytes(loc.ptr, loc.bytes_to_read)
                          /\ pc' = "read_rx_update_high"
                          /\ UNCHANGED <<loc, log>>
                     ELSE /\ pc' = "loop"
                          /\ log' = Append(log, Msg("Failed to read RX data"))
                          /\ loc' = NoLocals
                          /\ UNCHANGED <<buffer>>
    /\ UNCHANGED <<progRest, data, response, sent, nreads,
                   sr, cr, sreg, rxq, rxbase, faultFree, peer_events, fnVars>>

\* A register write of the receive path at `here`
RxRegisterWrite(here, address, value, ok) ==
    /\ pc = here
    /\ Record(RegWrite(address, value, ok))
    /\ WriteEffect(address, value, ok)
    /\ ~ok => /\ pc' = "loop"
              /\ log' = Append(log, Msg("Failed to read RX data"))
              /\ loc' = NoLocals
              /\ UNCHANGED <<data, response>>
    /\ UNCHANGED <<progRest, buffer, sent, nreads, fnVars>>

\* Variant of the pointer write-back whose addition does not wrap at 2^16
ReadRxUpdateHigh_no_wrap ==
    \E ok \in SpiOk :
        /\ RxRegisterWrite("read_rx_update_high", REG_S0_RX_RD0,
               (loc.ptr + loc.bytes_to_read) \div 256, ok)
        /\ ok => /\ pc' = "read_rx_update_low"
                 /\ UNCHANGED <<loc, log, data, response>>

\* read_rx_data step 4, 439-441: new_ptr = rx_ptr.wrapping_add(bytes_to_read), high byte
ReadRxUpdateHigh ==
    \E ok \in SpiOk :
        /\ RxRegisterWrite("read_rx_update_high", REG_S0_RX_RD0,
               u16_to_be_bytes(u16_wrapping_add(loc.ptr, loc.bytes_to_read))[1], ok)
        /\ ok => /\ pc' = "read_rx_update_low"
                 /\ UNCHANGED <<loc, log, data, response>>

\* Variant of the pointer write-back that writes the old low byte again
ReadRxUpdateLow_pointer_kept ==
    \E ok \in SpiOk :
        /\ RxRegisterWrite("read_rx_update_low", REG_S0_RX_RD0 + 1,
               u16_to_be_bytes(loc.ptr)[2], ok)
        /\ ok => /\ pc' = "read_rx_recv"
                 /\ UNCHANGED <<loc, log, data, response>>

\* 442: low byte
ReadRxUpdateLow ==
    \E ok \in SpiOk :
        /\ RxRegisterWrite("read_rx_update_low", REG_S0_RX_RD0 + 1,
               u16_to_be_bytes(u16_wrapping_add(loc.ptr, loc.bytes_to_read))[2], ok)
        /\ ok => /\ pc' = "read_rx_recv"
                 /\ UNCHANGED <<loc, log, data, response>>

\* read_rx_data step 5, 445-447: the Recv command and Ok(bytes_to_read); then main
\* 142-227 on the bytes read: parse, build the response, call write_tx_data
ReadRxRecv ==
    \E ok \in SpiOk :
        /\ RxRegisterWrite("read_rx_recv", REG_S0_CR, SOCK_CMD_RECV, ok)
        /\ ok => LET out == ProcessFrame(buffer, sensor_data)
                 IN  /\ data' = buffer
                     /\ log' = log \o out.log
                     /\ loc' = NoLocals
                     /\ response' = out.response
                     /\ pc' = IF out.panic THEN "panicked"
                              ELSE IF out.send THEN "write_tx_ptr_high" ELSE "loop"

(***************************************************************************)
(* write_tx_data (common.rs 453-484), called from main 199-206             *)
(***************************************************************************)
TxFails ==
    /\ pc' = "loop"
    /\ log' = Append(log, Msg("Failed to send response"))
    /\ loc' = NoLocals
    /\ sent' = sent

\* Variant of write_tx_data without the empty-data return of 458-460
WriteTxPtrHigh_always_reads ==
    /\ pc = "write_tx_ptr_high"
    /\ \E ok \in SpiOk :
         /\ Record(RegRead(REG_S0_TX_WR0, ok))
         /\ IF ok
            THEN /\ loc' = [loc EXCEPT !.high = SocketRegister(REG_S0_TX_WR0)]
                 /\ pc' = "write_tx_ptr_low"
                 /\ UNCHANGED <<log, sent>>
            ELSE TxFails
    /\ UNCHANGED <<progRest, buffer, data, response, nreads, ctrlVars, fnVars>>

\* Variant of the send path in which the uptime advances while the response is sent
WriteTxPtrHigh_uptime_ticks ==
    /\ pc = "write_tx_ptr_high"
    /\ IF response = <<>>
       THEN /\ pc' = "loop"
            /\ log' = Append(log, MsgCode("Response sent", 0))
            /\ UNCHANGED <<loc, xfers, spi_faults, sent>>
       ELSE \E ok \in SpiOk :
              /\ Record(RegRead(REG_S0_TX_WR0, ok))
              /\ IF ok
                 THEN /\ loc' = [loc EXCEPT !.high = SocketRegister(REG_S0_TX_WR0)]
                      /\ pc' = "write_tx_ptr_low"
                      /\ UNCHANGED <<log, sent>>
                 ELSE TxFails
    /\ sensor_data' = [sensor_data EXCEPT !.uptime = @ + 1]
    /\ UNCHANGED <<loop_count, is_connected, status, buffer, data, response, nreads,
                   ctrlVars, fnVars>>

\* 458-463: nothing to send returns Ok(0); else TX write pointer, high byte
WriteTxPtrHigh ==
    /\ pc = "write_tx_ptr_high"
    /\ IF response = <<>>
       THEN /\ pc' = "loop"
            /\ log' = Append(log, MsgCode("Response sent", 0))
            /\ UNCHANGED <<loc, xfers, spi_faults, sent>>
       ELSE \E ok \in SpiOk :
              /\ Record(RegRead(REG_S0_TX_WR0, ok))
              /\ IF ok
                 THEN /\ loc' = [loc EXCEPT !.high = SocketRegister(REG_S0_TX_WR0)]
                      /\ pc' = "write_tx_ptr_low"
                      /\ UNCHANGED <<log, sent>>
                 ELSE TxFails
    /\ UNCHANGED <<progRest, buffer, data, response, nreads, ctrlVars, fnVars>>

\* 464-465: low byte; tx_ptr
WriteTxPtrLow ==
    /\ pc = "write_tx_ptr_low"
    /\ \E ok \in SpiOk :
         /\ Record(RegRead(REG_S0_TX_WR0 + 1, ok))
         /\ IF ok
            THEN /\ loc' = [loc EXCEPT
                              !.ptr = u16_from_be_bytes(loc.high,
                                                        SocketRegister(REG_S0_TX_WR0 + 1)),
                              !.high = 0]
                 /\ pc' = "write_tx_buffer"
                 /\ UNCHANGED <<log, sent>>
            ELSE TxFails
    /\ UNCHANGED <<progRest, buffer, data, response, nreads, ctrlVars, fnVars>>

\* step 2, 468-469: w5500_write_tx_buffer (common.rs 743-773); tx_buf[3..len] with
\* len = 3 + data.len() panics past the 256-byte array, before chip-select goes low
WriteTxBuffer ==
    /\ pc = "write_tx_buffer"
    /\ IF 3 + Len(response) > SPI_BUF_LEN
       THEN /\ pc' = "panicked"
            /\ UNCHANGED <<loc, log, xfers, spi_faults, sent>>
       ELSE \E ok \in SpiOk :
              /\ Record([op |-> "write_tx_buffer", addr |-> loc.ptr,
                                         val |-> Len(response), ok |-> ok])
              /\ IF ok
                 THEN /\ pc' = "write_tx_update_high"
                      /\ UNCHANGED <<loc, log, sent>>
                 ELSE TxFails
    /\ UNCHANGED <<progRest, buffer, data, response, nreads, ctrlVars, fnVars>>

\* A register write of the send path at `here`
TxRegisterWrite(here, address, value, ok) ==
    /\ pc = here
    /\ Record(RegWrite(address, value, ok))
    /\ WriteEffect(address, value, ok)
    /\ ~ok => TxFails
    /\ UNCHANGED <<progRest, buffer, data, response, nreads, fnVars>>

\* step 3, 472-474: new_ptr = tx_ptr.wrapping_add(bytes_to_write), high byte
WriteTxUpdateHigh ==
    \E ok \in SpiOk :
        /\ TxRegisterWrite("write_tx_update_high", REG_S0_TX_WR0,
               u16_to_be_bytes(u16_wrapping_add(loc.ptr, Len(response)))[1], ok)
        /\ ok => /\ pc' = "write_tx_update_low"
                 /\ UNCHANGED <<loc, log, sent>>

\* 475: low byte
WriteTxUpdateLow ==
    \E ok \in SpiOk :
        /\ TxRegisterWrite("write_tx_update_low", REG_S0_TX_WR0 + 1,
               u16_to_be_bytes(u16_wrapping_add(loc.ptr, Len(response)))[2], ok)
        /\ ok => /\ pc' = "write_tx_send"
                 /\ UNCHANGED <<loc, log, sent>>

\* step 4, 478: the Send command
WriteTxSend ==
    \E ok \in SpiOk :
        /\ TxRegisterWrite("write_tx_send", REG_S0_CR, SOCK_CMD_SEND, ok)
        /\ ok => /\ pc' = "write_tx_wait"
                 /\ sent' = Append(sent, response)
                 /\ UNCHANGED <<loc, log>>

\* Variant of the end of the send that polls the status again in the same iteration
WriteTxWait_polls_again ==
    /\ pc = "write_tx_wait"
    /\ pc' = "status"
    /\ log' = Append(log, MsgCode("Response sent", Len(response)))
    /\ loc' = NoLocals
    /\ UNCHANGED <<progRest, buffer, data, response, xfers, spi_faults, sent, nreads,
                   ctrlVars, fnVars>>

\* step 5, 480-483: the 10 ms wait is over; Ok(bytes_to_write), and main 200-202
WriteTxWait ==
    /\ pc = "write_tx_wait"
    /\ pc' = "loop"
    /\ log' = Append(log, MsgCode("Response sent", Len(response)))
    /\ loc' = NoLocals
    /\ UNCHANGED <<progRest, buffer, data, response, xfers, spi_faults, sent, nreads,
                   ctrlVars, fnVars>>

(***************************************************************************)
(* The W5500 socket and its TCP peer (environment)                         *)
(***************************************************************************)
\* Frames a Modbus master sends: one delivery is what the RX buffer gains at once.
Request(tid, pid, length, uid, fc, start, count) ==
    u16_to_be_bytes(tid) \o u16_to_be_bytes(pid) \o u16_to_be_bytes(length)
    \o <<uid, fc>> \o u16_to_be_bytes(start) \o u16_to_be_bytes(count)

Deliveries ==
    { Request(1, 0, 6, 0, 3, 0, 7),          \* FC3, start 0, count 7
      Request(258, 0, 6, 17, 4, 5, 2),       \* FC4, uptime registers
      Request(2, 0, 6, 1, 3, 8, 5),          \* start 8, count 5: past register 9
      Request(3, 0, 6, 1, 5, 0, 0),          \* function code 5, count 0
      Request(4, 0, 6, 1, 3, 0, 126),        \* count 126
      Request(5, 1, 6, 1, 3, 0, 1),          \* protocol id 1
      Request(6, 0, 9, 1, 3, 9, 1) \o <<170>>, \* a 13th byte, length field 9
      <<0, 7, 0, 0, 0>>,                     \* shorter than an MBAP header
      <<0, 8, 0, 0, 0, 6, 1, 3, 0, 0>>,      \* MBAP header, PDU cut short
      Request(9, 0, 6, 1, 3, 0, 1) \o Request(10, 0, 6, 1, 3, 4, 1),  \* two requests
      Request(11, 0, 6, 1, 3, 0, 1) \o Zeros(242) }  \* 254 bytes pending

\* The controller accepts the pending command: Sn_CR reads 0 again
CtrlCommand ==
    /\ cr # 0
    /\ cr' = 0
    /\ sr' = CASE cr = SOCK_CMD_OPEN /\ sr = SOCK_STATUS_CLOSED -> SOCK_STATUS_INIT
               [] cr = SOCK_CMD_LISTEN /\ sr = SOCK_STATUS_INIT -> SOCK_STATUS_LISTEN
               [] cr = SOCK_CMD_CLOSE -> SOCK_STATUS_CLOSED
               [] OTHER -> sr
    /\ IF cr = SOCK_CMD_RECV
       THEN LET released == Min((RxReadPointer - rxbase) % 65536, Len(rxq))
            IN  /\ rxq' = SubSeq(rxq, released + 1, Len(rxq))
                /\ rxbase' = RxReadPointer
       ELSE IF cr = SOCK_CMD_OPEN /\ sr = SOCK_STATUS_CLOSED
       THEN /\ rxq' = <<>>
            /\ rxbase' = RxReadPointer
       ELSE UNCHANGED <<rxq, rxbase>>
    /\ UNCHANGED <<progVars, loc, iterVars, spi_faults, cs, sreg, faultFree, peer_events, fnVars>>

\* The peer's events are taken where the program waits on a timer: the 500 ms wait
\* of an iteration (seen by the status read that follows it) and the 10 ms waits
\* between the status polls of reopen_socket
TimerWait ==
    pc \in {"status", "reopen_wait_closed", "reopen_wait_init", "reopen_wait_listen"}

\* A peer's SYN arrives at the listening socket (SOCK_SYNRECV, 0x16)
PeerConnect ==
    /\ sr = SOCK_STATUS_LISTEN
    /\ sr' = 22
    /\ TimerWait
    /\ peer_events < MaxPeerEvents
    /\ peer_events' = peer_events + 1
    /\ UNCHANGED <<progVars, loc, iterVars, spi_faults, cs, cr, sreg, rxq, rxbase, faultFree, fnVars>>

\* The handshake completes
PeerEstablished ==
    /\ sr = 22
    /\ sr' = SOCK_STATUS_ESTABLISHED
    /\ TimerWait
    /\ UNCHANGED <<progVars, loc, iterVars, spi_faults, cs, cr, sreg, rxq, rxbase, faultFree, peer_events, fnVars>>

\* The peer sends while nothing is pending
PeerSend ==
    /\ sr = SOCK_STATUS_ESTABLISHED
    /\ rxq = <<>>
    /\ \E d \in Deliveries : rxq' = d
    /\ TimerWait
    /\ peer_events < MaxPeerEvents
    /\ peer_events' = peer_events + 1
    /\ UNCHANGED <<progVars, loc, iterVars, spi_faults, cs, sr, cr, sreg, rxbase, faultFree, fnVars>>

\* The peer closes its side (FIN): CLOSE_WAIT
PeerClose ==
    /\ sr = SOCK_STATUS_ESTABLISHED
    /\ sr' = SOCK_STATUS_CLOSE_WAIT
    /\ TimerWait
    /\ peer_events < MaxPeerEvents
    /\ peer_events' = peer_events + 1
    /\ UNCHANGED <<progVars, loc, iterVars, spi_faults, cs, cr, sreg, rxq, rxbase, faultFree, fnVars>>

\* The connection is reset or times out: CLOSED
PeerReset ==
    /\ sr \in {22, SOCK_STATUS_ESTABLISHED, SOCK_STATUS_CLOSE_WAIT}
    /\ sr' = SOCK_STATUS_CLOSED
    /\ TimerWait
    /\ peer_events < MaxPeerEvents
    /\ peer_events' = peer_events + 1
    /\ UNCHANGED <<progVars, loc, iterVars, spi_faults, cs, cr, sreg, rxq, rxbase, faultFree, fnVars>>

(***************************************************************************)
(* Pure-function harness: one call on inputs drawn from bounded sets       *)
(***************************************************************************)
NoCall == [op |-> "none"]

\* SensorData values: the default, and one with every field set
Snapshots ==
    {[temperature |-> DEFAULT_TEMPERATURE, humidity |-> DEFAULT_HUMIDITY,
      status |-> STATUS_OK, uptime |-> 0],
     [temperature |-> 1101591491, humidity |-> 1110756557, status |-> 1, uptime |-> 65538],
     [temperature |-> 16909060, humidity |-> 2147483647, status |-> 65535,
      uptime |-> 2147418113]}

\* PDUs: every byte string of up to 4 bytes over three values, and 5-byte
\* requests (some with bytes after them) over the values that decide the parse
ShortPdus ==
    UNION {[1..n -> {0, 3, 5}] : n \in 0..4}

FullPdus ==
    {<<fc, ah, al, ch, cl>> \o tail :
        fc \in {0, 1, 3, 4, 5, 131, 255}, ah \in {0, 255}, al \in {0, 8, 255},
        ch \in {0, 1, 255}, cl \in {0, 1, 124, 125, 126, 255},
        tail \in {<<>>, <<9>>, <<9, 9>>}}

ParseCalls ==
    {[op |-> "parse_modbus_request", data |-> d] : d \in ShortPdus \cup FullPdus}

ReadCalls ==
    {[op |-> "handle_read_registers", start_addr |-> s, count |-> c, sensor_data |-> sd,
      response_buffer |-> [i \in 1..(RESPONSE_LEN - 9) |-> fill]] :
        s \in (0..12) \cup {65534, 65535},
        c \in (0..12) \cup {124, 125, 126, 65535},
        sd \in Snapshots,
        fill \in {0, 255}}

CallParse ==
    /\ fn_in.op = "parse_modbus_request"
    /\ fn_out = NoCall
    /\ fn_out' = [op |-> fn_in.op, result |-> parse_modbus_request(fn_in.data)]
    /\ UNCHANGED <<progVars, loc, iterVars, spi_faults, ctrlVars, fn_in>>

CallReadRegisters ==
    /\ fn_in.op = "handle_read_registers"
    /\ fn_out = NoCall
    /\ fn_out' = [op |-> fn_in.op,
                  result |-> handle_read_registers(fn_in.start_addr, fn_in.count,
                                 fn_in.sensor_data, fn_in.response_buffer)]
    /\ UNCHANGED <<progVars, loc, iterVars, spi_faults, ctrlVars, fn_in>>

(***************************************************************************)
(* Specifications                                                          *)
(***************************************************************************)
\* Socket registers as init_hardware leaves them: mode TCP, port 502; the ring
\* pointers where earlier traffic has left them (rx, tx)
InitialRegisters(rx, tx) ==
    (REG_S0_MR :> SOCK_MODE_TCP)
    @@ (REG_S0_PORT0 :> 1) @@ (REG_S0_PORT0 + 1 :> 246)
    @@ (REG_S0_RX_RD0 :> u16_to_be_bytes(rx)[1]) @@ (REG_S0_RX_RD0 + 1 :> u16_to_be_bytes(rx)[2])
    @@ (REG_S0_TX_WR0 :> u16_to_be_bytes(tx)[1]) @@ (REG_S0_TX_WR0 + 1 :> u16_to_be_bytes(tx)[2])

\* SensorData::default()
SensorData_default ==
    [temperature |-> DEFAULT_TEMPERATURE, humidity |-> DEFAULT_HUMIDITY,
     status |-> STATUS_OK, uptime |-> 0]

\* main 39-58: the state in which the loop is entered
InitProgram ==
    /\ pc = "loop"
    /\ loop_count = 0
    /\ is_connected = FALSE
    /\ status = <<>> /\ buffer = <<>> /\ data = <<>> /\ response = <<>>
    /\ loc = NoLocals
    /\ log = <<>> /\ xfers = <<>> /\ sent = <<>> /\ nreads = 0
    /\ cs = "high"
    /\ peer_events = 0 /\ spi_faults = 0
    /\ fn_in = NoCall /\ fn_out = NoCall

\* The socket as init_hardware leaves it: listening, or the Listen command still
\* pending (289-295 goes on without LISTEN); the initial sensor reading taken or not
Init ==
    /\ InitProgram
    /\ \E r \in ReadSht3xResults :
         sensor_data = IF r.ok
                       THEN [SensorData_default EXCEPT !.temperature = r.temp,
                                                       !.humidity = r.hum]
                       ELSE SensorData_default
    /\ \/ sr = SOCK_STATUS_LISTEN /\ cr = 0
       \/ sr = SOCK_STATUS_INIT /\ cr = SOCK_CMD_LISTEN
    /\ sreg = InitialRegisters(65530, 65520) /\ rxbase = 65530
    /\ rxq = <<>>
    /\ faultFree = FALSE

Next ==
    \/ LoopTop \/ ReadSensor \/ CheckStatus \/ CloseSocket \/ ListenSocket
    \/ ReopenClose \/ ReopenWaitClosed \/ ReopenMode \/ ReopenPort0 \/ ReopenPort1
    \/ ReopenOpen \/ ReopenWaitInit \/ ReopenListen \/ ReopenWaitListen
    \/ CheckRxSizeHigh \/ CheckRxSizeLow
    \/ ReadRxSizeHigh \/ ReadRxSizeLow \/ ReadRxPtrHigh \/ ReadRxPtrLow \/ ReadRxBuffer
    \/ ReadRxUpdateHigh \/ ReadRxUpdateLow \/ ReadRxRecv
    \/ WriteTxPtrHigh \/ WriteTxPtrLow \/ WriteTxBuffer
    \/ WriteTxUpdateHigh \/ WriteTxUpdateLow \/ WriteTxSend \/ WriteTxWait
    \/ CtrlCommand \/ PeerConnect \/ PeerEstablished \/ PeerSend \/ PeerClose \/ PeerReset

Spec == Init /\ [][Next]_vars

\* The reopen sequence against a simulated fault-free controller: the socket is
\* CLOSED, no transfer fails, every command is accepted within the polling bound,
\* and no peer is attached
InitFaultFree ==
    /\ InitProgram
    /\ sensor_data = SensorData_default
    /\ sr = SOCK_STATUS_CLOSED /\ cr = 0
    /\ \E p \in {0, 65530} : sreg = InitialRegisters(p, p) /\ rxbase = p
    /\ rxq = <<>>
    /\ faultFree = TRUE

NextFaultFree ==
    \/ LoopTop \/ ReadSensor \/ CheckStatus
    \/ ReopenClose \/ ReopenWaitClosed \/ ReopenMode \/ ReopenPort0 \/ ReopenPort1
    \/ ReopenOpen \/ ReopenWaitInit \/ ReopenListen \/ ReopenWaitListen
    \/ CtrlCommand

SpecFaultFree == InitFaultFree /\ [][NextFaultFree]_vars

\* The session loop running for ever on a fault-free controller.  60-65 with
\* both wrapping counters kept in a reduced width: uptime wraps after MaxUptime
\* (in the code after 2^32 - 1), loop_count is kept modulo 4, all that line 67
\* uses of it (2^32 is a multiple of 4).
LoopTopWrapping ==
    /\ pc = "loop"
    /\ sensor_data' = [sensor_data EXCEPT !.uptime = (@ + 1) % (MaxUptime + 1)]
    /\ loop_count' = (loop_count + 1) % 4
    /\ pc' = IF loop_count' % 4 = 0 THEN "sensor" ELSE "status"
    /\ status' = <<>> /\ buffer' = <<>> /\ data' = <<>> /\ response' = <<>>
    /\ loc' = NoLocals
    /\ log' = <<>> /\ xfers' = <<>> /\ sent' = <<>> /\ nreads' = 0
    /\ UNCHANGED <<is_connected, ctrlVars, spi_faults, fnVars>>

\* The steps of the main task, the only task of the executor, while the peer
\* sends nothing: the status handling of 85-131 and check_rx_size of 134-135,
\* which finds no bytes
PollLoop ==
    \/ LoopTopWrapping \/ ReadSensor \/ CheckStatus \/ CloseSocket \/ ListenSocket
    \/ ReopenClose \/ ReopenWaitClosed \/ ReopenMode \/ ReopenPort0 \/ ReopenPort1
    \/ ReopenOpen \/ ReopenWaitInit \/ ReopenListen \/ ReopenWaitListen
    \/ CheckRxSizeHigh \/ CheckRxSizeLow

InitLive ==
    /\ InitProgram
    /\ sensor_data = SensorData_default
    /\ \/ sr = SOCK_STATUS_LISTEN /\ cr = 0
       \/ sr = SOCK_STATUS_INIT /\ cr = SOCK_CMD_LISTEN
    /\ sreg = InitialRegisters(65530, 65520) /\ rxbase = 65530
    /\ rxq = <<>>
    /\ faultFree = TRUE

NextLive ==
    \/ PollLoop
    \/ CtrlCommand \/ PeerConnect \/ PeerEstablished \/ PeerClose \/ PeerReset

\* The executor resumes the task whenever its timer has expired (every await of
\* main is a timer or a transfer that completes); the controller carries out a
\* command that stays written.
Fairness == WF_vars(PollLoop) /\ WF_vars(CtrlCommand)

SpecLive == InitLive /\ [][NextLive]_vars /\ Fairness

\* One call of a protocol function
InitFn ==
    /\ pc = "harness"
    /\ loop_count = 0
    /\ is_connected = FALSE
    /\ status = <<>> /\ buffer = <<>> /\ data = <<>> /\ response = <<>>
    /\ loc = NoLocals
    /\ log = <<>> /\ xfers = <<>> /\ sent = <<>> /\ nreads = 0
    /\ cs = "high"
    /\ peer_events = 0 /\ spi_faults = 0
    /\ fn_out = NoCall
    /\ sensor_data = SensorData_default
    /\ sr = SOCK_STATUS_CLOSED /\ cr = 0
    /\ sreg = InitialRegisters(0, 0) /\ rxbase = 0
    /\ rxq = <<>>
    /\ faultFree = TRUE
    /\ fn_in \in ParseCalls \cup ReadCalls

NextFn == CallParse \/ CallReadRegisters

SpecFn == InitFn /\ [][NextFn]_vars

(***************************************************************************)
(* read_rx_data and write_tx_data called on an established socket: first    *)
(* read_rx_data with whatever the peer has delivered (nothing included),    *)
(* then write_tx_data with data of the caller's choice (none included)      *)
(***************************************************************************)
\* The data handed to write_tx_data
TxData == {<<>>, <<1, 2, 3>>}

\* common.rs 453: write_tx_data(spi, cs, data) is entered; fn_in keeps the argument
\* and what the controller had been sent before the call
CallWriteTxData ==
    /\ pc = "loop"
    /\ fn_in.op = "read_rx_data"
    /\ \E d \in TxData :
         /\ response' = d
         /\ fn_in' = [op |-> "write_tx_data", data |-> d, xfers |-> xfers,
                      sreg |-> sreg, sent |-> sent]
    /\ pc' = "write_tx_ptr_high"
    /\ loc' = NoLocals
    /\ UNCHANGED <<progRest, buffer, data, log, iterVars, ctrlVars, spi_faults, fn_out>>

\* common.rs 418: read_rx_data(spi, cs, &mut buffer) is entered
InitIo ==
    /\ pc = "read_rx_size_high"
    /\ loop_count = 1
    /\ is_connected = TRUE
    /\ status = <<SOCK_STATUS_ESTABLISHED>>
    /\ buffer = <<>> /\ data = <<>> /\ response = <<>>
    /\ loc = NoLocals
    /\ log = <<>> /\ xfers = <<>> /\ sent = <<>> /\ nreads = 0
    /\ cs = "high"
    /\ peer_events = 0 /\ spi_faults = 0
    /\ fn_in = [op |-> "read_rx_data"] /\ fn_out = NoCall
    /\ sensor_data = SensorData_default
    /\ sr = SOCK_STATUS_ESTABLISHED /\ cr = 0
    /\ sreg = InitialRegisters(65530, 65520) /\ rxbase = 65530
    /\ rxq \in {<<>>} \cup Deliveries
    /\ faultFree = FALSE

NextIo ==
    \/ ReadRxSizeHigh \/ ReadRxSizeLow \/ ReadRxPtrHigh \/ ReadRxPtrLow \/ ReadRxBuffer
    \/ ReadRxUpdateHigh \/ ReadRxUpdateLow \/ ReadRxRecv
    \/ CallWriteTxData
    \/ WriteTxPtrHigh \/ WriteTxPtrLow \/ WriteTxBuffer
    \/ WriteTxUpdateHigh \/ WriteTxUpdateLow \/ WriteTxSend \/ WriteTxWait
    \/ CtrlCommand

SpecIo == InitIo /\ [][NextIo]_vars

(***************************************************************************)
(* init_hardware, the socket part (common.rs 183-302): every transport      *)
(* error is an .expect(), a panic                                           *)
(***************************************************************************)
\* for _ in 0..10 (217, 254) and for i in 0..20 (275)
INIT_COMMAND_POLLS == 10
INIT_STATUS_POLLS == 20

\* Socket 0 after the hardware reset of 112-123: mode, port and pointers zero
ResetRegisters ==
    [InitialRegisters(0, 0) EXCEPT ![REG_S0_MR] = 0, ![REG_S0_PORT0] = 0,
                                   ![REG_S0_PORT0 + 1] = 0]

initRest == <<sensor_data, loop_count, is_connected, status, buffer, data, response,
              sent, nreads, fnVars>>

\* A w5500_write_socket_register(..).await.expect(..) of the sequence
InitWrite(here, address, value, next, polls) ==
    /\ pc = here
    /\ \E ok \in SpiOk :
         /\ Record(RegWrite(address, value, ok))
         /\ WriteEffect(address, value, ok)
         /\ pc' = IF ok THEN next ELSE "panicked"
         /\ loc' = IF ok THEN [loc EXCEPT !.retries = polls] ELSE loc
    /\ UNCHANGED <<log, initRest>>

\* 212-230 and 249-267: poll the command register until it reads 0, at most
\* INIT_COMMAND_POLLS times, 10 ms apart; when it never did, warn and go on
InitPollCommand(here, next, polls, warning) ==
    /\ pc = here
    /\ \E ok \in SpiOk :
         /\ RecordPoll(RegRead(REG_S0_CR, ok))
         /\ IF ~ok
            THEN /\ pc' = "panicked"
                 /\ UNCHANGED <<loc, log>>
            ELSE IF cr = 0
            THEN /\ pc' = next
                 /\ loc' = [loc EXCEPT !.retries = polls]
                 /\ log' = log
            ELSE IF loc.retries = 1
            THEN /\ pc' = next
                 /\ loc' = [loc EXCEPT !.retries = polls]
                 /\ log' = Append(log, Msg(warning))
            ELSE /\ pc' = here
                 /\ loc' = [loc EXCEPT !.retries = @ - 1]
                 /\ log' = log
    /\ UNCHANGED <<ctrlVars, initRest>>

\* Step 0, 186-191: Close, then 10 ms
InitClose ==
    InitWrite("init_close", REG_S0_CR, SOCK_CMD_CLOSE, "init_mode", 0)

\* Step 1, 193-197
InitMode ==
    InitWrite("init_mode", REG_S0_MR, SOCK_MODE_TCP, "init_port", 0)

\* Step 2, 199-204: both port bytes in one transaction
InitPort ==
    /\ pc = "init_port"
    /\ \E ok \in SpiOk :
         /\ Record([op |-> "write_multi", addr |-> REG_S0_PORT0,
                    val |-> u16_from_be_bytes(1, 246), ok |-> ok])
         /\ sreg' = IF ok
                    THEN [sreg EXCEPT ![REG_S0_PORT0] = 1, ![REG_S0_PORT0 + 1] = 246]
                    ELSE sreg
         /\ pc' = IF ok THEN "init_open" ELSE "panicked"
    /\ UNCHANGED <<loc, log, initRest, cs, sr, cr, rxq, rxbase, faultFree, peer_events>>

\* Step 3, 206-210
InitOpen ==
    InitWrite("init_open", REG_S0_CR, SOCK_CMD_OPEN, "init_poll_open", INIT_COMMAND_POLLS)

\* Step 4, 212-230
InitPollOpen ==
    InitPollCommand("init_poll_open", "init_check_init", 0,
                    "OPEN command did not clear after 100ms")

\* 232-241: one status read; anything but INIT panics
InitCheckInit ==
    /\ pc = "init_check_init"
    /\ \E ok \in SpiOk :
         /\ Record(RegRead(REG_S0_SR, ok))
         /\ IF ok /\ sr = SOCK_STATUS_INIT
            THEN /\ pc' = "init_listen"
                 /\ log' = Append(log, Msg("Socket 0 opened successfully"))
            ELSE /\ pc' = "panicked"
                 /\ log' = log
    /\ UNCHANGED <<loc, ctrlVars, initRest>>

\* Step 5, 243-247
InitListen ==
    InitWrite("init_listen", REG_S0_CR, SOCK_CMD_LISTEN, "init_poll_listen",
              INIT_COMMAND_POLLS)

\* Step 6, 249-267, and the 50 ms of 270
InitPollListen ==
    InitPollCommand("init_poll_listen", "init_wait_listen", INIT_STATUS_POLLS,
                    "LISTEN command did not clear after 100ms")

\* 272-301: poll the status for LISTEN at most INIT_STATUS_POLLS times; return
\* (spi, cs_pin) either way
InitWaitListen ==
    /\ pc = "init_wait_listen"
    /\ \E ok \in SpiOk :
         /\ RecordPoll(RegRead(REG_S0_SR, ok))
         /\ IF ~ok
            THEN /\ pc' = "panicked"
                 /\ UNCHANGED <<loc, log>>
            ELSE IF sr = SOCK_STATUS_LISTEN
            THEN /\ pc' = "init_returned"
                 /\ loc' = NoLocals
                 /\ log' = Append(log, Msg("Socket 0 LISTENING on port 502"))
            ELSE IF loc.retries = 1
            THEN /\ pc' = "init_returned"
                 /\ loc' = NoLocals
                 /\ log' = Append(log, Msg("Socket 0 did not reach LISTEN state after 200ms"))
            ELSE /\ pc' = "init_wait_listen"
                 /\ loc' = [loc EXCEPT !.retries = @ - 1]
                 /\ log' = log
    /\ UNCHANGED <<ctrlVars, initRest>>

\* 183: the controller has been reset and configured; socket 0 is closed
InitBringUp ==
    /\ pc = "init_close"
    /\ loop_count = 0
    /\ is_connected = FALSE
    /\ status = <<>> /\ buffer = <<>> /\ data = <<>> /\ response = <<>>
    /\ loc = NoLocals
    /\ log = <<>> /\ xfers = <<>> /\ sent = <<>> /\ nreads = 0
    /\ cs = "high"
    /\ peer_events = 0 /\ spi_faults = 0
    /\ fn_in = NoCall /\ fn_out = NoCall
    /\ sensor_data = SensorData_default
    /\ sr = SOCK_STATUS_CLOSED /\ cr = 0
    /\ sreg = ResetRegisters /\ rxbase = 0
    /\ rxq = <<>>
    /\ faultFree = FALSE

NextBringUp ==
    \/ InitClose \/ InitMode \/ InitPort \/ InitOpen \/ InitPollOpen \/ InitCheckInit
    \/ InitListen \/ InitPollListen \/ InitWaitListen
    \/ CtrlCommand

SpecBringUp == InitBringUp /\ [][NextBringUp]_vars

(***************************************************************************)
(* The register and buffer accessors (common.rs 536-773), step by step:     *)
(* build the frame, cs.set_low(), 1 us, the SPI transfer, 1 us,             *)
(* cs.set_high(), return the result                                         *)
(***************************************************************************)
REG_VERSIONR == 57
REG_GAR0 == 1
REG_SHAR0 == 9
\* tx_buf of w5500_write_register (588) and of w5500_write_socket_register_multi (679)
COMMON_TX_BUF_LEN == 32
MULTI_TX_BUF_LEN == 16

\* The calls: op is the accessor, n the length of its data or buffer argument
XferCalls ==
    {[op |-> "w5500_read_register", address |-> REG_VERSIONR, n |-> 1, value |-> 0]}
    \cup {[op |-> "w5500_write_register", address |-> a, n |-> k, value |-> 0] :
            a \in {REG_GAR0, REG_SHAR0}, k \in {4, 6}}
    \cup {[op |-> "w5500_read_socket_register", address |-> a, n |-> 1, value |-> 0] :
            a \in {REG_S0_CR, REG_S0_SR, REG_S0_RX_RSR0, REG_S0_RX_RSR0 + 1,
                   REG_S0_RX_RD0, REG_S0_TX_WR0 + 1}}
    \cup {[op |-> "w5500_write_socket_register", address |-> REG_S0_CR, n |-> 1,
           value |-> c] :
            c \in {SOCK_CMD_OPEN, SOCK_CMD_LISTEN, SOCK_CMD_CLOSE, SOCK_CMD_RECV,
                   SOCK_CMD_SEND}}
    \cup {[op |-> "w5500_write_socket_register", address |-> REG_S0_RX_RD0 + 1, n |-> 1,
           value |-> 6],
          [op |-> "w5500_write_socket_register", address |-> REG_S0_MR, n |-> 1,
           value |-> SOCK_MODE_TCP]}
    \cup {[op |-> "w5500_write_socket_register_multi", address |-> REG_S0_PORT0, n |-> k,
           value |-> 0] : k \in {2, 14}}
    \cup {[op |-> "w5500_read_rx_buffer", address |-> 65530, n |-> k, value |-> 0] :
            k \in {0, 12, 253, 254, 260}}
    \cup {[op |-> "w5500_write_tx_buffer", address |-> 65520, n |-> k, value |-> 0] :
            k \in {9, 29, 253, 254}}

\* The size of the accessor's tx_buf, for those that copy their data into it
TxBufLen(op) ==
    CASE op = "w5500_write_register" -> COMMON_TX_BUF_LEN
      [] op = "w5500_write_socket_register_multi" -> MULTI_TX_BUF_LEN
      [] op = "w5500_write_tx_buffer" -> SPI_BUF_LEN
      [] OTHER -> 4

xferRest == <<sensor_data, loop_count, is_connected, status, buffer, data, response,
              loc, iterVars>>

\* Variant of the entry of an accessor that a second caller could take while a
\* transaction is suspended in a delay or in the transfer
XferCall_while_selected ==
    /\ pc \in {"harness", "xfer_selected", "xfer_transferred"}
    /\ \E c \in XferCalls :
         /\ fn_in' = c
         /\ IF 3 + c.n > TxBufLen(c.op) /\ c.op # "w5500_read_rx_buffer"
                                        /\ c.op # "w5500_read_register"
                                        /\ c.op # "w5500_read_socket_register"
            THEN pc' = "panicked" /\ cs' = cs
            ELSE pc' = "xfer_selected" /\ cs' = "low"
    /\ fn_out' = NoCall
    /\ UNCHANGED <<xferRest, sr, cr, sreg, rxq, rxbase, faultFree, peer_events, spi_faults>>

\* An accessor is entered: it builds its frame (tx_buf[3..len].copy_from_slice(data)
\* panics when the data do not fit) and selects the controller; then it awaits 1 us
XferCall ==
    /\ pc = "harness"
    /\ \E c \in XferCalls :
         /\ fn_in' = c
         /\ IF 3 + c.n > TxBufLen(c.op) /\ c.op # "w5500_read_rx_buffer"
                                        /\ c.op # "w5500_read_register"
                                        /\ c.op # "w5500_read_socket_register"
            THEN pc' = "panicked" /\ cs' = cs
            ELSE pc' = "xfer_selected" /\ cs' = "low"
    /\ fn_out' = NoCall
    /\ UNCHANGED <<xferRest, sr, cr, sreg, rxq, rxbase, faultFree, peer_events, spi_faults>>

\* What a successful transfer hands back
XferValue(c) ==
    CASE c.op = "w5500_read_register" -> 4
      [] c.op = "w5500_read_socket_register" -> SocketRegister(c.address)
      [] c.op = "w5500_read_rx_buffer" -> RxBufferBytes(c.address, c.n)
      [] OTHER -> 0

\* Variant of the transfer step that returns Err at once, as `?` on the result would
XferTransfer_returns_on_error ==
    /\ pc = "xfer_selected"
    /\ IF fn_in.op = "w5500_read_rx_buffer" /\ 3 + fn_in.n > SPI_BUF_LEN
       THEN /\ pc' = "panicked"
            /\ UNCHANGED <<fn_out, spi_faults, cr, sreg>>
       ELSE \E ok \in SpiOk :
              /\ fn_out' = IF ok THEN [op |-> "result", ok |-> ok, val |-> XferValue(fn_in)]
                           ELSE [op |-> "Err"]
              /\ spi_faults' = IF ok THEN spi_faults ELSE spi_faults + 1
              /\ IF fn_in.op = "w5500_write_socket_register"
                 THEN /\ cr' = IF ok /\ fn_in.address = REG_S0_CR THEN fn_in.value ELSE cr
                      /\ sreg' = IF ok /\ fn_in.address # REG_S0_CR
                                 THEN [sreg EXCEPT ![fn_in.address] = fn_in.value]
                                 ELSE sreg
                 ELSE UNCHANGED <<cr, sreg>>
              /\ pc' = IF ok THEN "xfer_transferred" ELSE "harness"
    /\ UNCHANGED <<xferRest, cs, sr, rxq, rxbase, faultFree, peer_events, fn_in>>

\* The SPI transfer: spi.transfer(&mut rx_buf[..len], &tx_buf[..len]) of
\* w5500_read_rx_buffer panics when len exceeds the 256 bytes of rx_buf; otherwise
\* the bus answers or fails, result keeps the outcome (here in fn_out), and the
\* accessor awaits another 1 us
XferTransfer ==
    /\ pc = "xfer_selected"
    /\ IF fn_in.op = "w5500_read_rx_buffer" /\ 3 + fn_in.n > SPI_BUF_LEN
       THEN /\ pc' = "panicked"
            /\ UNCHANGED <<fn_out, spi_faults, cr, sreg>>
       ELSE \E ok \in SpiOk :
              /\ fn_out' = [op |-> "result", ok |-> ok,
                            val |-> IF ok THEN XferValue(fn_in) ELSE 0]
              /\ spi_faults' = IF ok THEN spi_faults ELSE spi_faults + 1
              /\ IF fn_in.op = "w5500_write_socket_register"
                 THEN /\ cr' = IF ok /\ fn_in.address = REG_S0_CR THEN fn_in.value ELSE cr
                      /\ sreg' = IF ok /\ fn_in.address # REG_S0_CR
                                 THEN [sreg EXCEPT ![fn_in.address] = fn_in.value]
                                 ELSE sreg
                 ELSE UNCHANGED <<cr, sreg>>
              /\ pc' = "xfer_transferred"
    /\ UNCHANGED <<xferRest, cs, sr, rxq, rxbase, faultFree, peer_events, fn_in>>

\* cs.set_high(), then match result: Ok(value) or Err(())
XferDeselect ==
    /\ pc = "xfer_transferred"
    /\ cs' = "high"
    /\ fn_out' = IF fn_out.ok THEN [op |-> "Ok", val |-> fn_out.val] ELSE [op |-> "Err"]
    /\ pc' = "harness"
    /\ UNCHANGED <<xferRest, sr, cr, sreg, rxq, rxbase, faultFree, peer_events, spi_faults,
                   fn_in>>

\* The controller is configured and holds one received request; no accessor runs
InitXfer ==
    /\ pc = "harness"
    /\ loop_count = 0
    /\ is_connected = FALSE
    /\ status = <<>> /\ buffer = <<>> /\ data = <<>> /\ response = <<>>
    /\ loc = NoLocals
    /\ log = <<>> /\ xfers = <<>> /\ sent = <<>> /\ nreads = 0
    /\ cs = "high"
    /\ peer_events = 0 /\ spi_faults = 0
    /\ fn_in = NoCall /\ fn_out = NoCall
    /\ sensor_data = SensorData_default
    /\ sr = SOCK_STATUS_ESTABLISHED /\ cr = 0
    /\ sreg = InitialRegisters(65530, 65520) /\ rxbase = 65530
    /\ rxq = Request(1, 0, 6, 0, 3, 0, 7)
    /\ faultFree = FALSE

NextXfer == XferCall \/ XferTransfer \/ XferDeselect \/ CtrlCommand

SpecXfer == InitXfer /\ [][NextXfer]_vars

(***************************************************************************)
(* The one task (modbus_2.rs 18-19, 60-92): main awaits the sensor read,    *)
(* calls the display update and awaits each accessor in turn; no other task *)
(* is spawned                                                               *)
(***************************************************************************)
taskRest == <<loop_count, is_connected, status, buffer, data, response, loc, iterVars,
              ctrlVars, spi_faults, fnVars>>

\* main 68: read_sht3x is awaited (I2C write, 20 ms, I2C read)
TaskReadSensor ==
    /\ pc = "harness"
    /\ pc' = "sensor_sampling"
    /\ UNCHANGED <<sensor_data, taskRest>>

\* main 69-76: the reading is taken over, or the old one kept
TaskSensorDone ==
    /\ pc = "sensor_sampling"
    /\ \E r \in ReadSht3xResults :
         sensor_data' = IF r.ok
                        THEN [sensor_data EXCEPT !.temperature = r.temp, !.humidity = r.hum]
                        ELSE sensor_data
    /\ pc' = "harness"
    /\ UNCHANGED taskRest

\* main 81-83: update_display draws and flushes; it is not async
TaskUpdateDisplay ==
    /\ pc = "harness"
    /\ pc' = "display_refresh"
    /\ UNCHANGED <<sensor_data, taskRest>>

TaskDisplayDone ==
    /\ pc = "display_refresh"
    /\ pc' = "harness"
    /\ UNCHANGED <<sensor_data, taskRest>>

NextTask ==
    \/ XferCall \/ XferTransfer \/ XferDeselect
    \/ TaskReadSensor \/ TaskSensorDone \/ TaskUpdateDisplay \/ TaskDisplayDone
    \/ CtrlCommand

SpecTask == InitXfer /\ [][NextTask]_vars

(***************************************************************************)
(* The SPI frame of each accessor (common.rs 490-498, 536-773)              *)
(***************************************************************************)
CONTROL_PHASE_READ == 0
CONTROL_PHASE_WRITE == 4
BSB_COMMON_REG == 0
BSB_SOCKET0_REG == 1
BSB_SOCKET0_TX == 2
BSB_SOCKET0_RX == 3

\* (bsb << 3) | phase | 0x00: the operands share no bit, so | adds
ControlByte(bsb, phase) == ((bsb * 8) % 256) + phase + 0

\* Variant of the control byte of w5500_write_tx_buffer that selects the RX block
AccessorControl_tx_as_rx(op) ==
    CASE op = "w5500_read_register" -> ControlByte(BSB_COMMON_REG, CONTROL_PHASE_READ)
      [] op = "w5500_write_register" -> ControlByte(BSB_COMMON_REG, CONTROL_PHASE_WRITE)
      [] op = "w5500_read_socket_register" ->
           ControlByte(BSB_SOCKET0_REG, CONTROL_PHASE_READ)
      [] op = "w5500_write_socket_register" ->
           ControlByte(BSB_SOCKET0_REG, CONTROL_PHASE_WRITE)
      [] op = "w5500_write_socket_register_multi" ->
           ControlByte(BSB_SOCKET0_REG, CONTROL_PHASE_WRITE)
      [] op = "w5500_read_rx_buffer" -> ControlByte(BSB_SOCKET0_RX, CONTROL_PHASE_READ)
      [] op = "w5500_write_tx_buffer" -> ControlByte(BSB_SOCKET0_RX, CONTROL_PHASE_WRITE)

\* let control = ... of each accessor: 543, 582, 621, 648, 674, 708, 749
AccessorControl(op) ==
    CASE op = "w5500_read_register" -> ControlByte(BSB_COMMON_REG, CONTROL_PHASE_READ)
      [] op = "w5500_write_register" -> ControlByte(BSB_COMMON_REG, CONTROL_PHASE_WRITE)
      [] op = "w5500_read_socket_register" ->
           ControlByte(BSB_SOCKET0_REG, CONTROL_PHASE_READ)
      [] op = "w5500_write_socket_register" ->
           ControlByte(BSB_SOCKET0_REG, CONTROL_PHASE_WRITE)
      [] op = "w5500_write_socket_register_multi" ->
           ControlByte(BSB_SOCKET0_REG, CONTROL_PHASE_WRITE)
      [] op = "w5500_read_rx_buffer" -> ControlByte(BSB_SOCKET0_RX, CONTROL_PHASE_READ)
      [] op = "w5500_write_tx_buffer" -> ControlByte(BSB_SOCKET0_TX, CONTROL_PHASE_WRITE)

\* The bytes after the control byte: the dummy byte(s) of a read, the data of a write
\* (a write of one register carries c.value, the other writes carry data of c.n bytes)
AccessorPayload(c) ==
    IF c.op = "w5500_write_socket_register"
    THEN <<c.value>>
    ELSE IF c.op \in {"w5500_write_register", "w5500_write_socket_register_multi",
                      "w5500_write_tx_buffer"}
    THEN [i \in 1..c.n |-> (c.value + i) % 256]
    ELSE Zeros(c.n)

\* Whether the accessor gets as far as the SPI transfer: the frame fits its buffers
AccessorFrameFits(c) ==
    3 + c.n <= (IF c.op = "w5500_read_rx_buffer" THEN SPI_BUF_LEN ELSE TxBufLen(c.op))

\* tx_buf[..len] as handed to spi.transfer / spi.write: addr_high, addr_low, control,
\* then the payload
AccessorFrame(c) ==
    <<(c.address \div 256) % 256, c.address % 256, AccessorControl(c.op)>>
    \o AccessorPayload(c)

(***************************************************************************)
(* The codecs called one at a time: MbapHeader, the register split, the     *)
(* accessor frames, and the request handling for both function codes        *)
(***************************************************************************)
MbapHeaders ==
    [transaction_id : {0, 258, 65535}, protocol_id : {0, 1, 256},
     length : {0, 6, 513}, unit_id : {0, 1, 255}]

MbapCalls ==
    {[op |-> "MbapHeader", h |-> h, buffer |-> b] :
        h \in MbapHeaders,
        b \in {<<>>, <<255, 255, 255, 255, 255, 255>>, <<255, 255, 255, 255, 255, 255, 255>>,
               <<170, 170, 170, 170, 170, 170, 170, 170, 170>>}}

\* Bit patterns of an f32 and values of a u32, below 2^31
RegisterCalls ==
    {[op |-> "f32_to_registers", value |-> v] :
        v \in {0, 1, 65535, 65536, 16909060, 1101591491, DEFAULT_TEMPERATURE,
               DEFAULT_HUMIDITY, 2139095040, 2143289344, 2147483647}}
    \cup {[op |-> "u32_to_registers", value |-> v] :
        v \in {0, 1, 65535, 65536, 65538, 16909060, 2147418113, 2147483647}}

\* Two requests that differ in the function code only
FunctionCodeCalls ==
    {[op |-> "request", tid |-> t, pid |-> p, start |-> a, count |-> n, sd |-> sd] :
        t \in {1, 65535}, p \in {0, 1}, a \in {0, 5, 9, 10, 65535},
        n \in {0, 1, 2, 5, 10, 125, 126}, sd \in Snapshots}

\* to_bytes into the buffer, then from_bytes of what the buffer holds
CallMbapHeader ==
    /\ fn_in.op = "MbapHeader"
    /\ fn_out = NoCall
    /\ LET written == MbapHeader_to_bytes(fn_in.h, fn_in.buffer)
       IN  fn_out' = [op |-> fn_in.op, written |-> written,
                      parsed |-> MbapHeader_from_bytes(written.buffer)]
    /\ UNCHANGED <<progVars, loc, iterVars, spi_faults, ctrlVars, fn_in>>

CallToRegisters ==
    /\ fn_in.op \in {"f32_to_registers", "u32_to_registers"}
    /\ fn_out = NoCall
    /\ fn_out' = [op |-> fn_in.op,
                  words |-> IF fn_in.op = "f32_to_registers"
                            THEN f32_to_registers(fn_in.value)
                            ELSE u32_to_registers(fn_in.value)]
    /\ UNCHANGED <<progVars, loc, iterVars, spi_faults, ctrlVars, fn_in>>

\* An accessor builds its frame; fn_out keeps what goes onto the bus, if anything
CallAccessor ==
    /\ fn_in \in XferCalls
    /\ fn_out = NoCall
    /\ fn_out' = IF AccessorFrameFits(fn_in)
                 THEN [op |-> fn_in.op, emitted |-> TRUE, frame |-> AccessorFrame(fn_in)]
                 ELSE [op |-> fn_in.op, emitted |-> FALSE, frame |-> <<>>]
    /\ UNCHANGED <<progVars, loc, iterVars, spi_faults, ctrlVars, fn_in>>

\* main 145-227 run on the request with function code 0x03 and on the one with 0x04
CallRequest ==
    /\ fn_in.op = "request"
    /\ fn_out = NoCall
    /\ fn_out' = [op |-> fn_in.op,
                  holding |-> ProcessFrame(Request(fn_in.tid, fn_in.pid, 6, 1,
                                  READ_HOLDING_REGISTERS, fn_in.start, fn_in.count),
                                  fn_in.sd),
                  input |-> ProcessFrame(Request(fn_in.tid, fn_in.pid, 6, 1,
                                READ_INPUT_REGISTERS, fn_in.start, fn_in.count),
                                fn_in.sd)]
    /\ UNCHANGED <<progVars, loc, iterVars, spi_faults, ctrlVars, fn_in>>

InitCodec ==
    /\ pc = "harness"
    /\ loop_count = 0
    /\ is_connected = FALSE
    /\ status = <<>> /\ buffer = <<>> /\ data = <<>> /\ response = <<>>
    /\ loc = NoLocals
    /\ log = <<>> /\ xfers = <<>> /\ sent = <<>> /\ nreads = 0
    /\ cs = "high"
    /\ peer_events = 0 /\ spi_faults = 0
    /\ fn_out = NoCall
    /\ sensor_data = SensorData_default
    /\ sr = SOCK_STATUS_CLOSED /\ cr = 0
    /\ sreg = InitialRegisters(0, 0) /\ rxbase = 0
    /\ rxq = <<>>
    /\ faultFree = TRUE
    /\ fn_in \in MbapCalls \cup RegisterCalls \cup XferCalls \cup FunctionCodeCalls

NextCodec == CallMbapHeader \/ CallToRegisters \/ CallAccessor \/ CallRequest

SpecCodec == InitCodec /\ [][NextCodec]_vars

\* The handling of one read (modbus_2.rs 145-227) applied to two frames that
\* agree in transaction id, protocol id, unit id, function code, start and
\* count: one with length field 6 and nothing after the 12th byte, one with
\* another length field and bytes after the 12th
FrameTails == {<<>>, <<170>>, Request(10, 0, 6, 1, 3, 4, 1)}

FrameCalls ==
    {[op |-> "frame_pair",
      plain |-> Request(tid, pid, 6, uid, fc, start, count),
      other |-> Request(tid, pid, length, uid, fc, start, count) \o tail,
      sd |-> sd] :
        tid \in {1, 258}, pid \in {0, 1}, uid \in {1, 255}, fc \in {3, 4, 5},
        start \in {0, 8, 65535}, count \in {0, 1, 7, 126},
        length \in {0, 6, 9, 65535}, tail \in FrameTails,
        sd \in {SensorData_default,
                [temperature |-> 1101591491, humidity |-> 1110756557,
                 status |-> STATUS_OK, uptime |-> 65538]}}

CallFramePair ==
    /\ fn_in.op = "frame_pair"
    /\ fn_out = NoCall
    /\ fn_out' = [op |-> fn_in.op,
                  plain |-> ProcessFrame(fn_in.plain, fn_in.sd),
                  other |-> ProcessFrame(fn_in.other, fn_in.sd)]
    /\ UNCHANGED <<progVars, loc, iterVars, spi_faults, ctrlVars, fn_in>>

InitFrame ==
    /\ pc = "harness"
    /\ loop_count = 0
    /\ is_connected = FALSE
    /\ status = <<>> /\ buffer = <<>> /\ data = <<>> /\ response = <<>>
    /\ loc = NoLocals
    /\ log = <<>> /\ xfers = <<>> /\ sent = <<>> /\ nreads = 0
    /\ cs = "high"
    /\ peer_events = 0 /\ spi_faults = 0
    /\ fn_out = NoCall
    /\ sensor_data = SensorData_default
    /\ sr = SOCK_STATUS_CLOSED /\ cr = 0
    /\ sreg = InitialRegisters(0, 0) /\ rxbase = 0
    /\ rxq = <<>>
    /\ faultFree = TRUE
    /\ fn_in \in FrameCalls

NextFrame == CallFramePair

SpecFrame == InitFrame /\ [][NextFrame]_vars

(***************************************************************************)
(* Properties                                                              *)
(***************************************************************************)
\* The fixed register space of a snapshot, words 0..9
RegisterSpace(sd) ==
    <<sd.temperature \div 65536, sd.temperature % 65536,
      sd.humidity \div 65536, sd.humidity % 65536,
      sd.status,
      sd.uptime \div 65536, sd.uptime % 65536,
      0, 0, 0>>

\* Big-endian bytes of the words start..start+count-1, for start + count <= 10
RegisterBytes(start, count, sd) ==
    [j \in 1..(2 * count) |->
        LET word == RegisterSpace(sd)[start + ((j - 1) \div 2) + 1]
        IN  IF j % 2 = 1 THEN word \div 256 ELSE word % 256]

\* Fields of a received frame of at least 12 bytes
FrameProtocolId(d) == d[3] * 256 + d[4]
FrameFc(d) == d[8]
FrameStart(d) == d[9] * 256 + d[10]
FrameCount(d) == d[11] * 256 + d[12]

ValidRead(d) ==
    /\ Len(d) >= 12
    /\ FrameFc(d) \in {3, 4}
    /\ FrameCount(d) \in 1..125
    /\ FrameStart(d) + FrameCount(d) <= 10

SemanticallyInvalid(d) ==
    /\ Len(d) >= 12
    /\ \/ FrameFc(d) \notin {3, 4}
       \/ FrameCount(d) \notin 1..125
       \/ FrameStart(d) + FrameCount(d) > 10

ExpectedResponse(d, sd) ==
    <<d[1], d[2], d[3], d[4],
      (3 + 2 * FrameCount(d)) \div 256, (3 + 2 * FrameCount(d)) % 256,
      d[7], FrameFc(d), 2 * FrameCount(d)>>
    \o RegisterBytes(FrameStart(d), FrameCount(d), sd)

ExceptionCodeOf(d) ==
    IF FrameFc(d) \notin {3, 4} THEN 1
    ELSE IF FrameCount(d) \notin 1..125 THEN 3
    ELSE 2

ExceptionResponse(d) ==
    <<d[1], d[2], d[3], d[4], 0, 3, d[7],
      IF FrameFc(d) >= 128 THEN FrameFc(d) ELSE FrameFc(d) + 128,
      ExceptionCodeOf(d)>>

LastLog == IF log = <<>> THEN "" ELSE log[Len(log)].msg

AllTransfersOk == \A i \in 1..Len(xfers) : xfers[i].ok

IsWrite(x) == x.op = "write"

\* The register writes of this cycle, in order
WritesOf(x) ==
    LET w == SelectSeq(x, IsWrite)
    IN  [i \in 1..Len(w) |-> <<w[i].addr, w[i].val>>]

IsPrefix(a, b) == Len(a) <= Len(b) /\ a = SubSeq(b, 1, Len(a))

\* C1: at the end of a poll cycle that received a well-formed but semantically
\* invalid request (unsupported function code, count outside 1..125, or a register
\* index >= 10), exactly the Modbus exception response has been sent: transaction
\* id and unit id echoed, length 3, fc | 0x80, one exception-code byte.
C1_ExceptionResponseSent ==
    (pc = "loop" /\ SemanticallyInvalid(data))
        => sent = <<ExceptionResponse(data)>>

C3_ReadRegistersInRange ==
    (fn_out.op = "handle_read_registers" /\ fn_in.start_addr + fn_in.count <= 10)
        => /\ fn_out.result.ok
           /\ fn_out.result.len = 2 * fn_in.count
           /\ SubSeq(fn_out.result.buffer, 1, 2 * fn_in.count)
                = RegisterBytes(fn_in.start_addr, fn_in.count, fn_in.sensor_data)

C3_Witness ==
    /\ fn_out.op = "handle_read_registers"
    /\ fn_in.start_addr = 0 /\ fn_in.count = 10
    /\ fn_in.sensor_data.uptime = 65538
    /\ fn_in.response_buffer[1] = 255
    /\ fn_out.result.ok /\ fn_out.result.len = 20

\* C4: for count in 1..125 and start + count > 10, handle_read_registers returns
\* IllegalDataAddress (0x02) and leaves the output buffer exactly as it was.
C4_OutOfRangeWritesNothing ==
    (/\ fn_out.op = "handle_read_registers"
     /\ fn_in.count \in 1..125
     /\ fn_in.start_addr + fn_in.count > 10)
        => /\ ~fn_out.result.ok
           /\ fn_out.result.exception = 2
           /\ fn_out.result.buffer = fn_in.response_buffer

\* C5: parse_modbus_request rejects fewer than 5 bytes; else rejects a function
\* code other than 0x03/0x04 with IllegalFunction (0x01) whatever the count; else
\* rejects a count of 0 or above 125 with IllegalDataValue (0x03); else returns
\* (function code, big-endian start address, big-endian count).
C5_ParseDecisionOrder ==
    fn_out.op = "parse_modbus_request"
        => LET d == fn_in.data
               r == fn_out.result
           IN  IF Len(d) < 5 THEN ~r.ok
               ELSE IF d[1] \notin {3, 4} THEN ~r.ok /\ r.exception = 1
               ELSE IF d[4] * 256 + d[5] = 0 \/ d[4] * 256 + d[5] > 125
                    THEN ~r.ok /\ r.exception = 3
               ELSE /\ r.ok
                    /\ r.fc = d[1]
                    /\ r.addr = d[2] * 256 + d[3]
                    /\ r.count = d[4] * 256 + d[5]

C5_Witness ==
    /\ fn_out.op = "parse_modbus_request"
    /\ Len(fn_in.data) >= 5
    /\ fn_in.data[1] = 5
    /\ fn_in.data[4] = 0 /\ fn_in.data[5] = 0
    /\ ~fn_out.result.ok /\ fn_out.result.exception = 1

\* C6: a received frame whose protocol_id is not 0 is rejected by MBAP parsing and
\* no response has been sent for it at the end of the poll cycle.
C6_NonZeroProtocolIdUnanswered ==
    (pc = "loop" /\ Len(data) >= 7 /\ FrameProtocolId(data) # 0)
        => /\ ~MbapHeader_from_bytes(data).ok
           /\ sent = <<>>

\* C7: the session loop never panics.
C7_NeverPanics == pc # "panicked"

\* C8: at the end of a poll cycle that observed status Closed, the cycle's
\* transactions are the reopen sequence (Close, status polls until Closed, mode TCP,
\* port 0x01 0xF6, Open, polls until Init, Listen, polls until Listening) or a
\* prefix of it, no inbound data has been read or answered, and the cycle ended
\* with Listening read back or with the failure reported (after 21 polls of a
\* wait phase when no transfer failed).
C8_ClosedRunsReopen ==
    (pc = "loop" /\ status = <<0>>)
        => /\ Len(xfers) >= 2
           /\ xfers[1] = [op |-> "read", addr |-> 3, val |-> 0, ok |-> TRUE]
           /\ \A i \in 1..Len(xfers) :
                \/ xfers[i].op = "read" /\ xfers[i].addr = 3
                \/ xfers[i].op = "write"
           /\ IsPrefix(WritesOf(xfers),
                       <<<<1, 16>>, <<0, 1>>, <<4, 1>>, <<5, 246>>, <<1, 1>>, <<1, 2>>>>)
           /\ \A i \in 2..Len(xfers) :
                /\ (IsWrite(xfers[i]) /\ xfers[i].addr = 0)
                     => i >= 4 /\ xfers[i - 1] = [op |-> "read", addr |-> 3, val |-> 0, ok |-> TRUE]
                /\ (IsWrite(xfers[i]) /\ xfers[i].addr = 1 /\ xfers[i].val = 2)
                     => xfers[i - 1] = [op |-> "read", addr |-> 3, val |-> 19, ok |-> TRUE]
                /\ (IsWrite(xfers[i]) /\ xfers[i].addr \in {4, 5})
                     => IsWrite(xfers[i - 1])
                /\ (IsWrite(xfers[i]) /\ xfers[i].addr = 1 /\ xfers[i].val = 1)
                     => IsWrite(xfers[i - 1])
           /\ buffer = <<>> /\ data = <<>> /\ sent = <<>>
           /\ \/ /\ LastLog = "Socket reopened and listening on port 502"
                 /\ Len(WritesOf(xfers)) = 6
                 /\ xfers[Len(xfers)] = [op |-> "read", addr |-> 3, val |-> 20, ok |-> TRUE]
              \/ /\ LastLog = "Failed to reopen socket"
                 /\ AllTransfersOk => nreads = 21

C8_Witness ==
    /\ pc = "loop"
    /\ status = <<0>>
    /\ LastLog = "Socket reopened and listening on port 502"
    /\ Len(WritesOf(xfers)) = 6

\* C9: against a fault-free controller (no failed transfer, every command accepted
\* within the polling bound) a reopen that starts from Closed returns Ok with status
\* Listening, and no wait phase ever exhausts its retries.
C9_FaultFreeReopenSucceeds ==
    /\ \A i \in 1..Len(log) :
         log[i].msg \notin {"Socket did not close properly",
                            "Socket did not reach INIT state",
                            "Socket did not reach LISTEN state",
                            "Failed to reopen socket"}
    /\ (pc = "loop" /\ status = <<0>>)
         => /\ LastLog = "Socket reopened and listening on port 502"
            /\ sr = 20

C9_Witness ==
    /\ pc = "loop"
    /\ status = <<0>>
    /\ sr = 20
    /\ nreads = 21
    /\ LastLog = "Socket reopened and listening on port 502"

\* C10: a wait phase of reopen_socket makes at most 21 status reads (retries counts
\* down from 20 with every unsuccessful poll); a reopen that does not succeed has
\* returned the error, which the loop reports before going to its next poll, and it
\* has not panicked.
C10_BoundedPolling ==
    /\ nreads <= 21
    /\ pc \in {"reopen_wait_closed", "reopen_wait_init", "reopen_wait_listen"}
         => /\ nreads <= 20
            /\ loc.retries = 20 - nreads
    /\ status = <<0>> => pc # "panicked"
    /\ (pc = "loop" /\ status = <<0>>
          /\ LastLog # "Socket reopened and listening on port 502")
         => LastLog = "Failed to reopen socket"

C10_Witness ==
    /\ pc = "loop"
    /\ status = <<0>>
    /\ cr # 0
    /\ AllTransfersOk
    /\ nreads = 21
    /\ LastLog = "Failed to reopen socket"
    /\ sensor_data.uptime < MaxUptime

\* C11: in a poll cycle that observed Init the only write is the Listen command
\* (0x02) to the command register, and in a cycle that observed CloseWait the only
\* write is the Close command (0x10); the cycle ends with exactly that one write made
\* and no inbound data read or answered.
C11_InitListensCloseWaitCloses ==
    \A s \in {19, 28} :
        status = <<s>>
            => LET cmd == IF s = 19 THEN 2 ELSE 16
               IN  /\ IsPrefix(WritesOf(xfers), <<<<1, cmd>>>>)
                   /\ \A i \in 1..Len(xfers) :
                        xfers[i].op = "write" \/ (xfers[i].op = "read" /\ xfers[i].addr = 3)
                   /\ buffer = <<>> /\ data = <<>> /\ response = <<>> /\ sent = <<>>
                   /\ pc = "loop" => (Len(xfers) = 2 /\ WritesOf(xfers) = <<<<1, cmd>>>>)

C11_Witness ==
    /\ pc = "loop"
    /\ status = <<28>>
    /\ xfers = <<[op |-> "read", addr |-> 3, val |-> 28, ok |-> TRUE],
                 [op |-> "write", addr |-> 1, val |-> 16, ok |-> TRUE]>>
    /\ cr = 16

\* C12: in a poll cycle that observed Listening, or a status other than Closed,
\* Init, Listening, Established and CloseWait, the status read is the cycle's only
\* controller transaction: no command, register or buffer write is made and the
\* cycle ends at once.
C12_ListeningAndTransitionalIdle ==
    (status # <<>> /\ status[1] \notin {0, 19, 23, 28})
        => /\ pc = "loop"
           /\ xfers = <<[op |-> "read", addr |-> 3, val |-> status[1], ok |-> TRUE]>>
           /\ buffer = <<>> /\ data = <<>> /\ response = <<>> /\ sent = <<>>

C12_Witness ==
    /\ pc = "loop"
    /\ status = <<22>>
    /\ sr = 22
    /\ Len(xfers) = 1

\* C13: when a poll cycle has ended, every command written to the command register
\* in it (Open, Listen, Close, Send, Recv) was followed by a read of the command
\* register that returned 0.
C13_CommandWritesPolled ==
    pc = "loop"
        => \A i \in 1..Len(xfers) :
             (IsWrite(xfers[i]) /\ xfers[i].addr = 1 /\ xfers[i].ok)
                => \E j \in (i + 1)..Len(xfers) :
                     xfers[j] = [op |-> "read", addr |-> 1, val |-> 0, ok |-> TRUE]

\* What kind of transaction x is: its operation and, for a register, its address
Kind(x) == <<x.op, IF x.op \in {"read", "write"} THEN x.addr ELSE 0>>

KindsOf(x) == [i \in 1..Len(x) |-> Kind(x[i])]

\* read_rx_data's transactions in a cycle that observed Established: they follow the
\* status read and the two reads of check_rx_size
ReceiveTransfers == SubSeq(xfers, 4, Min(Len(xfers), 11))

SendTransfers == SubSeq(xfers, Len(xfers) - 5, Len(xfers))

SendReturned == pc = "loop" /\ sent # <<>>

\* C17: when write_tx_data has returned the number of bytes sent, it has read the
\* TX write pointer, written the bytes at that offset, written back the advanced
\* pointer and written Send, in this order, and the Send command has taken effect:
\* the command register has cleared.
C17_SendOrderAndCompletion ==
    SendReturned
        => /\ Len(xfers) >= 17
           /\ KindsOf(SendTransfers)
                = <<<<"read", 36>>, <<"read", 37>>, <<"write_tx_buffer", 0>>,
                    <<"write", 36>>, <<"write", 37>>, <<"write", 1>>>>
           /\ SendTransfers[3].addr = SendTransfers[1].val * 256 + SendTransfers[2].val
           /\ SendTransfers[3].val = Len(response)
           /\ SendTransfers[6].val = 32
           /\ cr = 0

\* C19: after a receive of n bytes the RX read pointer register holds (old pointer
\* + n) mod 2^16, and after a send of n bytes the TX write pointer register holds
\* (old pointer + n) mod 2^16, the high byte written before the low byte.
C19_PointersAdvanceModulo ==
    /\ data # <<>>
         => /\ Kind(xfers[9]) = <<"write", 40>> /\ Kind(xfers[10]) = <<"write", 41>>
            /\ xfers[9].val \in 0..255 /\ xfers[10].val \in 0..255
            /\ RxReadPointer = (xfers[6].val * 256 + xfers[7].val + Len(data)) % 65536
    /\ SendReturned
         => /\ Kind(SendTransfers[4]) = <<"write", 36>>
            /\ Kind(SendTransfers[5]) = <<"write", 37>>
            /\ SendTransfers[4].val \in 0..255 /\ SendTransfers[5].val \in 0..255
            /\ TxWritePointer
                 = (SendTransfers[1].val * 256 + SendTransfers[2].val + Len(sent[1])) % 65536

\* both pointers have wrapped: 65530 + 12 and 65520 + 23
C19_Witness ==
    /\ SendReturned
    /\ Len(data) = 12 /\ Len(sent[1]) = 23
    /\ xfers[6].val = 255 /\ xfers[7].val = 250
    /\ RxReadPointer = 6
    /\ TxWritePointer = 7

\* C18: read_rx_data that reads a received size of 0 returns 0 after those two
\* reads and nothing else: no pointer write, no buffer access, no Recv; and
\* write_tx_data called with empty data performs no controller transaction at all
\* and returns 0.
C18_EmptyTransfersAreNoOps ==
    /\ ( /\ fn_in.op = "read_rx_data"
         /\ Len(xfers) >= 2
         /\ xfers[1] = [op |-> "read", addr |-> 38, val |-> 0, ok |-> TRUE]
         /\ xfers[2] = [op |-> "read", addr |-> 39, val |-> 0, ok |-> TRUE] )
         => /\ pc = "loop"
            /\ Len(xfers) = 2
            /\ data = <<>> /\ buffer = <<>> /\ response = <<>> /\ sent = <<>>
            /\ log # <<>> /\ log[1] = MsgCode("Read bytes from RX buffer", 0)
            /\ sreg = InitialRegisters(65530, 65520)
            /\ cr = 0
    /\ (fn_in.op = "write_tx_data" /\ fn_in.data = <<>>)
         => /\ xfers = fn_in.xfers
            /\ sreg = fn_in.sreg
            /\ sent = fn_in.sent
            /\ pc \in {"write_tx_ptr_high", "loop"}
            /\ pc = "loop" => log[Len(log)] = MsgCode("Response sent", 0)

\* both no-ops, one after the other: two size reads are all the controller saw
C18_Witness ==
    /\ pc = "loop"
    /\ fn_in.op = "write_tx_data" /\ fn_in.data = <<>>
    /\ xfers = <<[op |-> "read", addr |-> 38, val |-> 0, ok |-> TRUE],
                 [op |-> "read", addr |-> 39, val |-> 0, ok |-> TRUE]>>
    /\ log[1] = MsgCode("Read bytes from RX buffer", 0)
    /\ log[Len(log)] = MsgCode("Response sent", 0)

\* C14: init_hardware returns only after it has read the status Listening, and
\* never after a polling bound was exceeded: an Open or Listen command that did
\* not clear, or a status that did not become Listening, halts the device.
C14_BringUpBoundFatal ==
    pc = "init_returned"
        => /\ xfers[Len(xfers)] = [op |-> "read", addr |-> 3, val |-> 20, ok |-> TRUE]
           /\ \A i \in 1..Len(log) :
                log[i].msg \notin {"OPEN command did not clear after 100ms",
                                   "LISTEN command did not clear after 100ms",
                                   "Socket 0 did not reach LISTEN state after 200ms"}

\* The status reads that returned Closed, by position
ReadClosedBefore(i) ==
    \E j \in 1..(i - 1) : xfers[j] = [op |-> "read", addr |-> 3, val |-> 0, ok |-> TRUE]

\* C15: in the startup sequence the writes of the mode, of the source port and of
\* the Open command come only after a status read that returned Closed.
C15_StartupWaitsForClosed ==
    pc \in {"init_mode", "init_port", "init_open", "init_poll_open", "init_check_init",
            "init_listen", "init_poll_listen", "init_wait_listen", "init_returned"}
        => \A i \in 1..Len(xfers) :
             ( \/ (xfers[i].op = "write" /\ xfers[i].addr = 0)
               \/ xfers[i].op = "write_multi"
               \/ (xfers[i].op = "write" /\ xfers[i].addr = 1 /\ xfers[i].val = 1) )
                 => ReadClosedBefore(i)

\* C20: whenever an accessor has returned, with Ok or with Err, chip-select is
\* high; chip-select is low only inside a call that has selected the controller
\* and has not returned.
C20_ChipSelectReleased ==
    /\ (pc = "harness" /\ fn_in # NoCall) => (cs = "high" /\ fn_out.op \in {"Ok", "Err"})
    /\ pc = "harness" => cs = "high"
    /\ cs = "low" => pc \in {"xfer_selected", "xfer_transferred", "panicked"}

\* a buffer read has failed on the bus and returned Err
C20_Witness ==
    /\ pc = "harness"
    /\ fn_in.op = "w5500_read_rx_buffer"
    /\ fn_out = [op |-> "Err"]
    /\ cs = "high"

\* C30: a failed SPI transaction is handed to the caller as an error and the
\* device keeps running: no transaction that failed is followed by a panic.
C30_TransportFailureNeverPanics ==
    (\E i \in 1..Len(xfers) : ~xfers[i].ok) => pc # "panicked"

\* C24: a header written with to_bytes into a buffer of at least 7 bytes and
\* parsed back with from_bytes is the same header, field by field; to_bytes on a
\* shorter buffer fails and leaves the buffer as it was.
C24_MbapHeaderRoundTrip ==
    (fn_out # NoCall /\ fn_out.op = "MbapHeader")
        => IF Len(fn_in.buffer) >= 7
           THEN /\ fn_out.written.ok
                /\ Len(fn_out.written.buffer) = Len(fn_in.buffer)
                /\ fn_out.parsed.ok
                /\ fn_out.parsed.transaction_id = fn_in.h.transaction_id
                /\ fn_out.parsed.protocol_id = fn_in.h.protocol_id
                /\ fn_out.parsed.length = fn_in.h.length
                /\ fn_out.parsed.unit_id = fn_in.h.unit_id
           ELSE /\ ~fn_out.written.ok
                /\ fn_out.written.buffer = fn_in.buffer

C24_Witness ==
    /\ fn_out # NoCall /\ fn_out.op = "MbapHeader"
    /\ fn_in.h = [transaction_id |-> 258, protocol_id |-> 256, length |-> 513,
                  unit_id |-> 255]
    /\ Len(fn_in.buffer) = 9
    /\ fn_out.written.buffer = <<1, 2, 1, 0, 2, 1, 255, 170, 170>>

\* C25: the two words of f32_to_registers, and of u32_to_registers, are 16-bit
\* words that put together high word first give the 32-bit value they came from.
C25_RegisterWordsRoundTrip ==
    (fn_out # NoCall /\ fn_out.op \in {"f32_to_registers", "u32_to_registers"})
        => /\ Len(fn_out.words) = 2
           /\ fn_out.words[1] \in 0..65535
           /\ fn_out.words[2] \in 0..65535
           /\ fn_out.words[1] * 65536 + fn_out.words[2] = fn_in.value

C25_Witness ==
    /\ fn_out # NoCall /\ fn_out.op = "u32_to_registers"
    /\ fn_in.value = 2147418113
    /\ fn_out.words = <<32767, 1>>

\* The block an accessor addresses and whether it writes
BlockOf(op) ==
    CASE op \in {"w5500_read_register", "w5500_write_register"} -> 0
      [] op \in {"w5500_read_socket_register", "w5500_write_socket_register",
                 "w5500_write_socket_register_multi"} -> 1
      [] op = "w5500_write_tx_buffer" -> 2
      [] op = "w5500_read_rx_buffer" -> 3

WritesBlock(op) ==
    op \in {"w5500_write_register", "w5500_write_socket_register",
            "w5500_write_socket_register_multi", "w5500_write_tx_buffer"}

\* C26: every frame an accessor emits starts with the address, high byte first,
\* and a control byte whose two mode bits are 00, whose phase bit 0x04 is set
\* exactly for writes, and whose upper five bits are the block: 0 common
\* registers, 1 socket registers, 2 TX buffer, 3 RX buffer.
C26_FrameHeader ==
    (fn_out # NoCall /\ fn_in \in XferCalls /\ fn_out.emitted)
        => /\ Len(fn_out.frame) = 3 + fn_in.n
           /\ fn_out.frame[1] * 256 + fn_out.frame[2] = fn_in.address
           /\ fn_out.frame[1] \in Byte /\ fn_out.frame[2] \in Byte
           /\ LET control == fn_out.frame[3]
              IN  /\ control \in Byte
                  /\ control % 4 = 0
                  /\ ((control \div 4) % 2 = 1) <=> WritesBlock(fn_in.op)
                  /\ control \div 8 = BlockOf(fn_in.op)

C26_Witness ==
    /\ fn_out # NoCall /\ fn_in \in XferCalls /\ fn_out.emitted
    /\ fn_in.op = "w5500_write_tx_buffer" /\ fn_in.n = 9
    /\ SubSeq(fn_out.frame, 1, 3) = <<255, 240, 20>>

\* C27: a request with function code 0x03 and the same request with 0x04 have
\* the same outcome: both answered or both not, the same log, and responses that
\* are equal byte for byte except for the function code.
C27_FunctionCodesAlike ==
    (fn_out # NoCall /\ fn_out.op = "request")
        => /\ fn_out.holding.send = fn_out.input.send
           /\ fn_out.holding.panic = fn_out.input.panic
           /\ fn_out.holding.log = fn_out.input.log
           /\ Len(fn_out.holding.response) = Len(fn_out.input.response)
           /\ \A i \in 1..Len(fn_out.holding.response) :
                IF i = 8
                THEN fn_out.holding.response[i] = 3 /\ fn_out.input.response[i] = 4
                ELSE fn_out.holding.response[i] = fn_out.input.response[i]

C27_Witness ==
    /\ fn_out # NoCall /\ fn_out.op = "request"
    /\ fn_in.start = 5 /\ fn_in.count = 2 /\ fn_in.sd.uptime = 65538
    /\ fn_out.holding.send /\ fn_out.input.send
    /\ Len(fn_out.input.response) = 13
    /\ fn_out.input.response[8] = 4
    /\ SubSeq(fn_out.input.response, 10, 13) = <<0, 1, 0, 2>>

\* The readings the working snapshot can hold: the defaults, or what the sensor gave
Readings ==
    {<<DEFAULT_TEMPERATURE, DEFAULT_HUMIDITY>>}
    \cup {<<r.temp, r.hum>> : r \in {x \in ReadSht3xResults : x.ok}}

\* C29: a sensor refresh either takes both values of a successful reading or, when
\* the read fails, leaves temperature and humidity exactly as they were; status and
\* uptime are not touched, and the cycle goes on to poll the socket status.
C29_FailedRefreshKeepsReadings ==
    /\ [](<<sensor_data.temperature, sensor_data.humidity>> \in Readings)
    /\ [][pc = "sensor"
            => IF pc' = pc
               THEN sensor_data' = sensor_data
               ELSE /\ pc' = "status"
                    /\ \/ sensor_data' = sensor_data
                       \/ \E r \in ReadSht3xResults :
                            /\ r.ok
                            /\ sensor_data' = [sensor_data EXCEPT !.temperature = r.temp,
                                                                  !.humidity = r.hum]
                    /\ xfers' = xfers /\ log' = log]_vars

\* the initial reading and the refresh of the fourth iteration have both failed:
\* the socket was polled in that iteration and the request answered from the defaults
C29_Witness ==
    /\ loop_count = 4
    /\ pc = "loop"
    /\ sensor_data.temperature = DEFAULT_TEMPERATURE
    /\ status = <<23>>
    /\ sent # <<>>
    /\ Len(sent[1]) = 23
    /\ SubSeq(sent[1], 10, 17) = <<65, 204, 0, 0, 66, 112, 0, 0>>

\* A frame too short to hold a request was received in this cycle
MalformedReceived == data # <<>> /\ Len(data) < 12

\* C28: a frame of fewer than 7 bytes, or of fewer than 12, is discarded: nothing
\* is sent, no TX transaction is made, the RX read pointer was advanced past the
\* frame and Recv was written, so that the controller, once it has taken the
\* command, holds no byte of the frame any more; and the loop goes on.
C28_MalformedFrameDiscarded ==
    MalformedReceived
        => /\ pc = "loop"
           /\ sent = <<>> /\ response = <<>>
           /\ Len(xfers) = 11
           /\ \A i \in 1..Len(xfers) : xfers[i].ok /\ xfers[i].op # "write_tx_buffer"
           /\ xfers[8].op = "read_rx_buffer" /\ xfers[8].val = Len(data)
           /\ xfers[11] = [op |-> "write", addr |-> 1, val |-> 64, ok |-> TRUE]
           /\ RxReadPointer = (xfers[6].val * 256 + xfers[7].val + Len(data)) % 65536
           /\ log[Len(log)].msg \in {"Frame too small for Modbus TCP", "MBAP Header parsed"}
           /\ cr = 0 => rxq = <<>>

\* the ten bytes of a header with a PDU cut short have been read and released
C28_Witness ==
    /\ pc = "loop"
    /\ data = <<0, 8, 0, 0, 0, 6, 1, 3, 0, 0>>
    /\ cr = 0 /\ rxq = <<>>
    /\ RxReadPointer = 4
    /\ sent = <<>>

\* C23: from the status poll of a cycle to its end no field of the sensor snapshot
\* changes, and the register bytes of a response that was sent are those of that
\* one snapshot.
C23_ResponseFromOneSnapshot ==
    /\ []((sent # <<>> /\ ValidRead(data))
            => SubSeq(sent[1], 10, Len(sent[1]))
                 = RegisterBytes(FrameStart(data), FrameCount(data), sensor_data))
    /\ [][(status # <<>> /\ status' # <<>>) => sensor_data' = sensor_data]_vars

\* the uptime words of a response are the uptime of the snapshot
C23_Witness ==
    /\ pc = "loop"
    /\ sent # <<>>
    /\ FrameStart(data) = 5 /\ FrameCount(data) = 2
    /\ sensor_data.uptime = 3
    /\ SubSeq(sent[1], 10, 13) = <<0, 0, 0, 3>>

\* Positions in this cycle's transactions: status polls, receive-path and
\* send-path transactions
StatusPolls == {i \in 1..Len(xfers) : xfers[i].op = "read" /\ xfers[i].addr = 3}

ReceivePositions ==
    {i \in 1..Len(xfers) :
        \/ xfers[i].op = "read_rx_buffer"
        \/ xfers[i].op \in {"read", "write"} /\ xfers[i].addr \in {38, 39, 40, 41}
        \/ xfers[i].op = "write" /\ xfers[i].addr = 1 /\ xfers[i].val = 64}

SendPositions ==
    {i \in 1..Len(xfers) :
        \/ xfers[i].op = "write_tx_buffer"
        \/ xfers[i].op \in {"read", "write"} /\ xfers[i].addr \in {36, 37}
        \/ xfers[i].op = "write" /\ xfers[i].addr = 1 /\ xfers[i].val = 32}

\* C22: in a cycle that found the connection established there is one status poll,
\* the first transaction; at most one frame is read from the controller and at most
\* one response written to it; nothing is read from the controller once the send has
\* begun; and the next status poll is reached only from the top of the loop, with
\* no frame, response or operation left over.
C22_RequestsHandledSequentially ==
    /\ [](status = <<23>>
            => /\ StatusPolls = {1}
               /\ Cardinality({i \in ReceivePositions : xfers[i].op = "read_rx_buffer"}) <= 1
               /\ Cardinality({i \in SendPositions : xfers[i].op = "write_tx_buffer"}) <= 1
               /\ Len(sent) <= 1
               /\ \A i \in ReceivePositions : \A j \in SendPositions : i < j)
    /\ [](pc = "status"
            => /\ status = <<>> /\ xfers = <<>>
               /\ buffer = <<>> /\ data = <<>> /\ response = <<>> /\ sent = <<>>
               /\ loc = NoLocals)
    /\ [][(pc' = "status" /\ pc # "status") => pc \in {"loop", "sensor"}]_vars

\* two requests arrived together: one read, one response, then the cycle was over
C22_Witness ==
    /\ pc = "loop"
    /\ status = <<23>>
    /\ Len(data) = 24
    /\ Len(sent) = 1
    /\ Len(xfers) = 17
    /\ StatusPolls = {1}

InTransaction == pc \in {"xfer_selected", "xfer_transferred"}

\* C21: a transaction begins only when chip-select is high and no accessor is
\* running; while one is suspended between select and deselect, no other begins
\* and neither sensor sampling nor display refresh runs; chip-select is high
\* throughout sensor sampling and display refresh.
C21_TransactionsNeverOverlap ==
    /\ [](pc \in {"sensor_sampling", "display_refresh"} => cs = "high")
    /\ [](InTransaction => cs = "low")
    /\ [][(pc' = "xfer_selected" /\ (pc # "xfer_selected" \/ fn_in' # fn_in))
             => (pc = "harness" /\ cs = "high")]_vars
    /\ [][InTransaction
             => /\ fn_in' = fn_in
                /\ sensor_data' = sensor_data
                /\ pc' \notin {"sensor_sampling", "display_refresh"}]_vars

\* a register read is in flight after the sensor was sampled
C21_Witness ==
    /\ pc = "xfer_transferred"
    /\ cs = "low"
    /\ fn_in.op = "w5500_read_socket_register" /\ fn_in.address = 3
    /\ sensor_data.temperature = 1101591491

\* ---- C38 ----
\* C38: the status word of the snapshot is never modified after initialisation:
\* it is 0 in every state of the session loop, and a response that carries
\* register 4 carries 0x0000 for it.
Register4Bytes(r) == SubSeq(r, 18, 19)

C38_StatusWordAlwaysZero ==
    /\ sensor_data.status = STATUS_OK
    /\ \A i \in 1..Len(sent) :
         (Len(data) >= 12 /\ ValidRead(data) /\ FrameStart(data) = 0 /\ FrameCount(data) >= 5)
             => Register4Bytes(sent[i]) = <<0, 0>>

\* a response carrying register 4, sent after a refresh of the sensor has failed
C38_Witness ==
    /\ pc = "loop"
    /\ loop_count = 4
    /\ sensor_data.temperature = DEFAULT_TEMPERATURE
    /\ sensor_data.uptime = 4
    /\ Len(sent) = 1
    /\ ValidRead(data) /\ FrameStart(data) = 0 /\ FrameCount(data) = 7
    /\ Register4Bytes(sent[1]) = <<0, 0>>

\* ---- C33 ----
\* C33: the RX size and pointer registers, the RX and TX buffers and the Recv
\* and Send commands are touched only in poll cycles whose status read
\* returned 0x17; in every other cycle the transfers are those of the status
\* handling alone and no Recv or Send command is written.
StatusHandlingRegisters == {REG_S0_SR, REG_S0_CR, REG_S0_MR, REG_S0_PORT0, REG_S0_PORT0 + 1}

IsDataTransfer(x) ==
    \/ x.op \in {"read_rx_buffer", "write_tx_buffer"}
    \/ x.op \in {"read", "write"} /\ x.addr \notin StatusHandlingRegisters
    \/ x.op = "write" /\ x.addr = REG_S0_CR /\ x.val \in {SOCK_CMD_RECV, SOCK_CMD_SEND}

C33_DataPathOnlyWhenEstablished ==
    (status # <<SOCK_STATUS_ESTABLISHED>>)
        => /\ \A i \in 1..Len(xfers) : ~IsDataTransfer(xfers[i])
           /\ sent = <<>>
           /\ data = <<>>

\* a cycle that found CLOSE_WAIT after the peer had connected and closed:
\* the status read and Close, nothing else
C33_Witness ==
    /\ pc = "loop"
    /\ status = <<SOCK_STATUS_CLOSE_WAIT>>
    /\ peer_events = 2
    /\ xfers = <<RegRead(REG_S0_SR, TRUE), RegWrite(REG_S0_CR, SOCK_CMD_CLOSE, TRUE)>>
    /\ sr = SOCK_STATUS_CLOSE_WAIT

\* ---- C34 ----
\* C34: an Open command is written only after a status read, made after the
\* most recent Close command, has returned Closed; the CLOSE_WAIT branch
\* writes Close and nothing after it, and never Open.
IsCommand(x, c) == x.op = "write" /\ x.addr = REG_S0_CR /\ x.val = c

ClosedObservedBefore(i) ==
    \E j \in 1..(i - 1) :
        /\ xfers[j].op = "read" /\ xfers[j].addr = REG_S0_SR
        /\ xfers[j].ok /\ xfers[j].val = SOCK_STATUS_CLOSED
        /\ \E k \in 1..(j - 1) : IsCommand(xfers[k], SOCK_CMD_CLOSE)
        /\ \A k \in (j + 1)..(i - 1) : ~IsCommand(xfers[k], SOCK_CMD_CLOSE)

C34_OpenOnlyAfterClosedObserved ==
    /\ \A i \in 1..Len(xfers) :
         IsCommand(xfers[i], SOCK_CMD_OPEN) => ClosedObservedBefore(i)
    /\ (status = <<SOCK_STATUS_CLOSE_WAIT>> /\ pc = "loop")
         => /\ Len(xfers) = 2
            /\ IsCommand(xfers[2], SOCK_CMD_CLOSE)

\* a reopen that wrote Open after seeing a status other than Closed first
C34_Witness ==
    /\ \E i \in 1..Len(xfers) :
         /\ IsCommand(xfers[i], SOCK_CMD_OPEN) /\ xfers[i].ok
         /\ \E j \in 3..(i - 1) :
              /\ xfers[j].op = "read" /\ xfers[j].addr = REG_S0_SR
              /\ xfers[j].ok /\ xfers[j].val # SOCK_STATUS_CLOSED
    /\ status = <<SOCK_STATUS_CLOSED>>

\* ---- C35 ----
\* C35: the first transport error of a poll cycle ends it: the failed
\* transaction is the last one of the cycle, whichever of the status read,
\* reopen_socket, close_socket, listen_socket, check_rx_size, read_rx_data or
\* write_tx_data it belongs to, and nothing is sent after it.
C35_FirstErrorAborts ==
    \A i \in 1..Len(xfers) :
        ~xfers[i].ok => /\ i = Len(xfers)
                        /\ pc = "loop"
                        /\ sent = <<>>

\* read_rx_data failed at the write-back of the read pointer: no Recv follows
C35_Witness ==
    /\ pc = "loop"
    /\ status = <<SOCK_STATUS_ESTABLISHED>>
    /\ Len(xfers) >= 9
    /\ xfers[Len(xfers)].op = "write"
    /\ xfers[Len(xfers)].addr \in {REG_S0_RX_RD0, REG_S0_RX_RD0 + 1}
    /\ ~xfers[Len(xfers)].ok
    /\ \A i \in 1..Len(xfers) : ~IsCommand(xfers[i], SOCK_CMD_RECV)
    /\ LastLog = "Failed to read RX data"

\* ---- C31 ----
\* C31: every complete request frame that a poll takes out of the RX buffer
\* is answered: when a poll cycle has read two valid read requests in one
\* read, the controller has released their bytes, and the cycle has finished
\* without a transport error, it has sent the response to each of them, in order.
FirstRequest == SubSeq(data, 1, 12)

SecondRequest == SubSeq(data, 13, 24)

C31_EveryPendingRequestAnswered ==
    (/\ pc = "loop"
     /\ status = <<SOCK_STATUS_ESTABLISHED>>
     /\ AllTransfersOk
     /\ rxq = <<>>
     /\ Len(data) = 24
     /\ ValidRead(FirstRequest)
     /\ ValidRead(SecondRequest))
        => /\ Len(sent) = 2
           /\ sent[1] = ExpectedResponse(FirstRequest, sensor_data)
           /\ sent[2] = ExpectedResponse(SecondRequest, sensor_data)

\* ---- C36 ----
\* C36: in handle_read_registers the sum start_addr + i never exceeds 65535:
\* whatever start_addr and count in 0..65535, the loop has returned
\* IllegalDataAddress at the first register address above 9 before such a sum
\* is formed, so a request that runs past 65535 is refused and never reads
\* register 0 through a wrapped address.
C36_RegisterAddressNeverOverflows ==
    (fn_out # NoCall /\ fn_out.op = "handle_read_registers")
        => /\ ~fn_out.result.overflow
           /\ (fn_in.start_addr + fn_in.count > 65536)
                => /\ ~fn_out.result.ok
                   /\ fn_out.result.exception = ILLEGAL_DATA_ADDRESS
           /\ (fn_in.start_addr > 9 /\ fn_in.count > 0)
                => fn_out.result.buffer = fn_in.response_buffer

\* start 65535, count 2: refused at index 0, nothing written
C36_Witness ==
    /\ fn_out # NoCall
    /\ fn_out.op = "handle_read_registers"
    /\ fn_in.start_addr = 65535
    /\ fn_in.count = 2
    /\ ~fn_out.result.ok
    /\ fn_out.result.exception = ILLEGAL_DATA_ADDRESS
    /\ fn_out.result.buffer = fn_in.response_buffer

\* ---- C37 ----
\* C37: the outcome of a poll depends only on the transaction id, protocol id,
\* unit id, function code, start address and count of the frame and on the
\* snapshot, not on the bytes after the 12th: a cycle that found a valid read
\* request in the first 12 pending bytes and took its reads without a
\* transport error sends the response to those 12 bytes, whatever follows them.
Pending == IF data # <<>> THEN data ELSE rxq

C37_OutcomeIgnoresBytesAfterRequest ==
    (/\ pc \in {"loop", "panicked"}
     /\ status = <<SOCK_STATUS_ESTABLISHED>>
     /\ AllTransfersOk
     /\ Len(xfers) >= 7
     /\ Len(Pending) >= 12
     /\ ValidRead(SubSeq(Pending, 1, 12)))
        => sent = <<ExpectedResponse(SubSeq(Pending, 1, 12), sensor_data)>>

\* The part of C37 that holds, on the bytes of a read that returned: the
\* handling of two frames that differ only in the MBAP length field or in
\* bytes after the 12th gives the same response, byte for byte, or discards
\* both, with the same diagnostics apart from the count of bytes read.
Diagnostics(o) == SubSeq(o.log, 2, Len(o.log))

HandlingIgnoresLengthAndTail ==
    (fn_out # NoCall /\ fn_out.op = "frame_pair")
        => /\ fn_out.other.send = fn_out.plain.send
           /\ fn_out.other.response = fn_out.plain.response
           /\ fn_out.other.panic = fn_out.plain.panic
           /\ Diagnostics(fn_out.other) = Diagnostics(fn_out.plain)

\* the same claim for the cycles that do not end in the panic
OutcomeIgnoresBytesAfterRequestUnlessPanic ==
    (/\ pc = "loop"
     /\ status = <<SOCK_STATUS_ESTABLISHED>>
     /\ AllTransfersOk
     /\ Len(xfers) >= 7
     /\ Len(Pending) >= 12
     /\ ValidRead(SubSeq(Pending, 1, 12)))
        => sent = <<ExpectedResponse(SubSeq(Pending, 1, 12), sensor_data)>>

\* ---- C32 ----
\* C32: with a fault-free controller and a poll loop that keeps running, a
\* socket that is in CLOSE_WAIT, CLOSED or INIT is eventually LISTEN again:
\* it is never left in one of these states for ever.
C32_CloseWaitReturnsToListening ==
    (sr \in {SOCK_STATUS_CLOSE_WAIT, SOCK_STATUS_CLOSED, SOCK_STATUS_INIT})
        ~> (sr = SOCK_STATUS_LISTEN)

\* the end of the cycle that reopened the socket after a peer had connected
\* and the connection had ended
C32_Witness ==
    /\ pc = "loop"
    /\ peer_events = 2
    /\ status = <<SOCK_STATUS_CLOSED>>
    /\ sr = SOCK_STATUS_LISTEN
    /\ LastLog = "Socket reopened and listening on port 502"
====
